---- MODULE Spec2Model ----
(***************************************************************************)
(* Model of the CSV ingestion pipeline (services/csvParser.ts): format     *)
(* detection, header discovery, per-format column mapping, currency        *)
(* parsing and date reconstruction; and of the upload handler of the App   *)
(* component (App.tsx), which calls it on the files of the two slots.      *)
(*                                                                         *)
(* A JavaScript string is a sequence of one-character strings, so that     *)
(* splitting, trimming, substring search and regular-expression matching   *)
(* are computed on characters as the code computes them.  Indices that the *)
(* code keeps (i, headerIndex, column numbers) are the code's 0-based      *)
(* indices; At(seq, k) is the JavaScript read seq[k].                      *)
(***************************************************************************)
EXTENDS Integers, Sequences, FiniteSets, TLC

(***************************************************************************)
(* JavaScript values                                                       *)
(***************************************************************************)

\* The value `undefined`; no string equals it (characters are one long).
Undefined == <<"undefined">>

\* A JavaScript number: a finite decimal m * 10^(-e), NaN, or +-Infinity.
Num(m, e) == [k |-> "num", m |-> m, e |-> e]
NaN == [k |-> "nan", m |-> 0, e |-> 0]
Infinity(sign) == [k |-> "inf", m |-> sign, e |-> 0]
Zero == Num(0, 0)

Min(a, b) == IF a <= b THEN a ELSE b
SetMin(S) == CHOOSE x \in S : \A y \in S : x <= y

\* seq[k] with a 0-based index: undefined outside the array.
At(seq, k) == IF k >= 0 /\ k < Len(seq) THEN seq[k + 1] ELSE Undefined

(***************************************************************************)
(* String.prototype methods                                                *)
(***************************************************************************)

WhiteSpace == {" ", "\t", "\r", "\n"}
Digits == <<"0", "1", "2", "3", "4", "5", "6", "7", "8", "9">>
DigitSet == {Digits[k] : k \in 1..10}
DigitVal(c) == (CHOOSE k \in 1..10 : Digits[k] = c) - 1

\* s.trimStart()
RECURSIVE TrimStart(_)
TrimStart(s) ==
  IF s # <<>> /\ s[1] \in WhiteSpace THEN TrimStart(Tail(s)) ELSE s

\* s.trimEnd()
RECURSIVE TrimEnd(_)
TrimEnd(s) ==
  IF s # <<>> /\ s[Len(s)] \in WhiteSpace
  THEN TrimEnd(SubSeq(s, 1, Len(s) - 1)) ELSE s

\* s.trim()
Trim(s) == TrimEnd(TrimStart(s))

\* s.indexOf(sub), 0-based, -1 when absent
IndexOf(s, sub) ==
  LET hits == {k \in 1..(Len(s) - Len(sub) + 1) :
                 \A j \in 1..Len(sub) : s[k + j - 1] = sub[j]}
  IN IF hits = {} THEN -1 ELSE SetMin(hits) - 1

\* s.includes(sub)
Includes(s, sub) == IndexOf(s, sub) # -1

\* s.startsWith(sub)
StartsWith(s, sub) == Len(sub) <= Len(s) /\ SubSeq(s, 1, Len(sub)) = sub

\* s.replace(pat, rep) with a string pattern: the first occurrence only
ReplaceFirst(s, pat, rep) ==
  LET p == IndexOf(s, pat)
  IN IF p = -1 THEN s
     ELSE SubSeq(s, 1, p) \o rep \o SubSeq(s, p + Len(pat) + 1, Len(s))

\* s.replace(/[chars]/g, ''): every character of the class removed
RemoveAll(s, chars) == SelectSeq(s, LAMBDA c : c \notin chars)

\* s.toLowerCase()
Upper == <<"A", "B", "C", "D", "E", "F", "G", "H", "I", "J", "K", "L", "M",
           "N", "O", "P", "Q", "R", "S", "T", "U", "V", "W", "X", "Y", "Z">>
Lower == <<"a", "b", "c", "d", "e", "f", "g", "h", "i", "j", "k", "l", "m",
           "n", "o", "p", "q", "r", "s", "t", "u", "v", "w", "x", "y", "z">>
LowerChar(c) ==
  IF \E k \in 1..Len(Upper) : Upper[k] = c
  THEN Lower[CHOOSE k \in 1..Len(Upper) : Upper[k] = c]
  ELSE c
ToLowerCase(s) == [k \in 1..Len(s) |-> LowerChar(s[k])]

\* The pieces of s between separators; a separator is a pair <<first, last>>
\* of positions, separators given in increasing order.
PiecesFrom(s, seps, from) ==
  [j \in 1..(Len(seps) + 1) |->
     SubSeq(s, IF j = 1 THEN from ELSE seps[j - 1][2] + 1,
               IF j = Len(seps) + 1 THEN Len(s) ELSE seps[j][1] - 1)]

\* The members of S from lo to hi, in increasing order.
RECURSIVE SortedBetween(_, _, _)
SortedBetween(S, lo, hi) ==
  IF lo > hi THEN <<>>
  ELSE IF lo = hi THEN IF lo \in S THEN <<lo>> ELSE <<>>
  ELSE LET mid == (lo + hi) \div 2
       IN SortedBetween(S, lo, mid) \o SortedBetween(S, mid + 1, hi)

\* The positions in S, a set of positions of s, in increasing order.
SortedSeq(S, s) == SortedBetween(S, 1, Len(s))

\* s.split(","): at every comma
SplitComma(s) ==
  LET cuts == SortedSeq({k \in 1..Len(s) : s[k] = ","}, s)
  IN PiecesFrom(s, [j \in 1..Len(cuts) |-> <<cuts[j], cuts[j]>>], 1)

\* csvText.split(/\r\n|\n/): a "\r" right before a "\n" belongs to the
\* separator; an empty text gives one empty line.
SplitLines(text) ==
  LET cuts == SortedSeq({k \in 1..Len(text) : text[k] = "\n"}, text)
      first(c) == IF c > 1 /\ text[c - 1] = "\r" THEN c - 1 ELSE c
  IN PiecesFrom(text, [j \in 1..Len(cuts) |-> <<first(cuts[j]), cuts[j]>>], 1)

\* The decimal value of a digit string, most significant digit first.
RECURSIVE DigitsValue(_)
DigitsValue(ds) ==
  IF ds = <<>> THEN 0
  ELSE 10 * DigitsValue(SubSeq(ds, 1, Len(ds) - 1)) + DigitVal(ds[Len(ds)])

\* The longest prefix of s made of digits.
DigitPrefix(s) ==
  LET stop == {k \in 1..Len(s) : s[k] \notin DigitSet}
  IN IF stop = {} THEN s ELSE SubSeq(s, 1, SetMin(stop) - 1)

RECURSIVE Pow10(_)
Pow10(n) == IF n <= 0 THEN 1 ELSE 10 * Pow10(n - 1)

\* m * 10^(-e) in lowest terms of e (no trailing zero in the fraction).
RECURSIVE Normal(_, _)
Normal(m, e) ==
  IF m = 0 THEN Zero
  ELSE IF e < 0 THEN Num(m * Pow10(0 - e), 0)
  ELSE IF e > 0 /\ m % 10 = 0 THEN Normal(m \div 10, e - 1)
  ELSE Num(m, e)

\* parseInt(s), radix 10: leading white space, a sign, then the longest
\* digit prefix; NaN when there is no digit.
ParseInt(s) ==
  LET t == TrimStart(s)
      signed == t # <<>> /\ t[1] \in {"+", "-"}
      body == IF signed THEN Tail(t) ELSE t
      ds == DigitPrefix(body)
  IN IF ds = <<>> THEN NaN
     ELSE Num((IF signed /\ t[1] = "-" THEN -1 ELSE 1) * DigitsValue(ds), 0)

\* parseFloat(s): leading white space, a sign, then the longest prefix that
\* is "Infinity" or digits with an optional fraction and exponent.
ParseFloat(s) ==
  LET t == TrimStart(s)
      signed == t # <<>> /\ t[1] \in {"+", "-"}
      sign == IF signed /\ t[1] = "-" THEN -1 ELSE 1
      body == IF signed THEN Tail(t) ELSE t
      ip == DigitPrefix(body)
      r1 == SubSeq(body, Len(ip) + 1, Len(body))
      dot == r1 # <<>> /\ r1[1] = "."
      fp == IF dot THEN DigitPrefix(Tail(r1)) ELSE <<>>
      r2 == IF dot THEN SubSeq(r1, Len(fp) + 2, Len(r1)) ELSE r1
      hasE == r2 # <<>> /\ r2[1] \in {"e", "E"}
      r3 == IF hasE THEN Tail(r2) ELSE <<>>
      esigned == r3 # <<>> /\ r3[1] \in {"+", "-"}
      ed == DigitPrefix(IF esigned THEN Tail(r3) ELSE r3)
      ex == IF ed = <<>> THEN 0
            ELSE (IF esigned /\ r3[1] = "-" THEN -1 ELSE 1) * DigitsValue(ed)
  IN IF StartsWith(body, <<"I", "n", "f", "i", "n", "i", "t", "y">>) THEN Infinity(sign)
     ELSE IF ip = <<>> /\ fp = <<>> THEN NaN
     ELSE Normal(sign * DigitsValue(ip \o fp), Len(fp) - ex)

\* The number without the || 0.
OrZeroKeepingNaN(x) == x

\* x || 0 on a number: NaN and (either) zero are falsy
OrZero(x) == IF x.k = "nan" \/ (x.k = "num" /\ x.m = 0) THEN Zero ELSE x

(***************************************************************************)
(* csvParser.ts                                                            *)
(***************************************************************************)

Quotes == {"'", "\""}

\* parseCurrency that keeps the "." of a value that also has a ",".
parseCurrencyKeepingDots(value) ==
  IF value = Undefined \/ value = <<>> THEN Zero
  ELSE LET c0 == Trim(ReplaceFirst(RemoveAll(value, Quotes), <<"R", "$">>, <<>>))
           clean == IF Includes(c0, <<",">>)
                    THEN ReplaceFirst(c0, <<",">>, <<".">>)
                    ELSE c0
       IN OrZero(ParseFloat(clean))

\* parseCurrency
parseCurrency(value) ==
  IF value = Undefined \/ value = <<>> THEN Zero
  ELSE LET c0 == Trim(ReplaceFirst(RemoveAll(value, Quotes), <<"R", "$">>, <<>>))
           clean == IF Includes(c0, <<",">>) /\ Includes(c0, <<".">>)
                    THEN ReplaceFirst(RemoveAll(c0, {"."}), <<",">>, <<".">>)
                    ELSE IF Includes(c0, <<",">>)
                         THEN ReplaceFirst(c0, <<",">>, <<".">>)
                         ELSE c0
       IN OrZero(ParseFloat(clean))

\* CycleType (types.ts)
WASH == "LAVAR"
DRY == "SECAR"
UNKNOWN_CYCLE == "OUTRO"

\* determineCycleType with the two tests in the other order.
determineCycleTypeDryFirst(productName) ==
  IF productName = Undefined \/ productName = <<>> THEN UNKNOWN_CYCLE
  ELSE LET lower == ToLowerCase(productName)
       IN IF Includes(lower, <<"s", "e", "c", "a">>) THEN DRY
          ELSE IF Includes(lower, <<"l", "a", "v", "a">>) THEN WASH
          ELSE UNKNOWN_CYCLE

\* determineCycleType
determineCycleType(productName) ==
  IF productName = Undefined \/ productName = <<>> THEN UNKNOWN_CYCLE
  ELSE LET lower == ToLowerCase(productName)
       IN IF Includes(lower, <<"l", "a", "v", "a">>) THEN WASH
          ELSE IF Includes(lower, <<"s", "e", "c", "a">>) THEN DRY
          ELSE UNKNOWN_CYCLE

\* enum CsvFormat
SELF_SERVICE == "SELF_SERVICE"
ATTENDANT == "ATTENDANT"
UNKNOWN == "UNKNOWN"

\* splitCsvLine splitting at every comma, quoted or not.
splitCsvLineEveryComma(line) == SplitComma(line)

\* splitCsvLine: the regular expression matches a comma that is followed,
\* up to the end of the line, by an even number of double quotes.
splitCsvLine(line) ==
  LET quotesAfter(k) == Cardinality({j \in (k + 1)..Len(line) : line[j] = "\""})
      cuts == SortedSeq({k \in 1..Len(line) : line[k] = "," /\ quotesAfter(k) % 2 = 0}, line)
  IN PiecesFrom(line, [j \in 1..Len(cuts) |-> <<cuts[j], cuts[j]>>], 1)

\* isLineEmpty
isLineEmpty(line) ==
  \/ line = <<>>
  \/ Trim(line) = <<>>
  \/ Len(Trim(RemoveAll(line, {","}))) = 0

\* The literals the scans look for.
sProdutos == <<"P", "r", "o", "d", "u", "t", "o", "s">>
sTotalVenda == <<"T", "o", "t", "a", "l", " ", "V", "e", "n", "d", "a">>
sData == <<"D", "a", "t", "a">>
sHora == <<"H", "o", "r", "a">>
sNomeTerminal == <<"N", "o", "m", "e", " ", "T", "e", "r", "m", "i", "n", "a", "l">>
sVendaRS == <<"V", "e", "n", "d", "a", " ", "(", "R", "$", ")">>
sVendasDe == <<"V", "e", "n", "d", "a", "s", " ", "d", "e">>
sAte == <<" ", "a", "t", "e", " ">>
\* The footer marker with a colon.
sTotalColon == <<"T", "o", "t", "a", "l", ":">>
sTotal == <<"T", "o", "t", "a", "l">>
sOperador == <<"O", "p", "e", "r", "a", "d", "o", "r", ":">>
sCliente == <<"C", "l", "i", "e", "n", "t", "e">>
sUnidadeDesconhecida == <<"U", "n", "i", "d", "a", "d", "e", " ", "D", "e", "s", "c",
                          "o", "n", "h", "e", "c", "i", "d", "a">>
sPeriodoNaoIdentificado == <<"P", "e", "r", "í", "o", "d", "o", " ", "n", "ã", "o", " ",
                             "i", "d", "e", "n", "t", "i", "f", "i", "c", "a", "d", "o">>

\* The depth of the three scans over the first lines of the document.
ScanLimit == 5000
\* The depth of the scan for the "Operador:" line.
OperatorScanLimit == 50

isSelfServiceSignature(line) ==
  Includes(line, sProdutos) /\ Includes(line, sTotalVenda) /\ Includes(line, sData)
isAttendantSignature(line) ==
  Includes(line, sNomeTerminal) /\ Includes(line, sVendaRS) /\ Includes(line, sData)

\* The scan bound without Math.min: the cap whatever the document's length.
ScanBoundNoMin(ls, cap) == cap

\* The scan bound of a loop that stops one line early (i < limit - 1).
ScanBoundOffByOne(ls, cap) == Min(Len(ls), cap) - 1

\* Math.min(lines.length, cap): the number of lines a scan visits
ScanBound(ls, cap) == Min(Len(ls), cap)

isSignature(l) == isSelfServiceSignature(l) \/ isAttendantSignature(l)

hasPeriodPart(l) ==
  Includes(l, sVendasDe)
  /\ \E p \in 1..Len(SplitComma(l)) : Includes(SplitComma(l)[p], sVendasDe)

isHeaderRow(l) == Includes(l, sData) /\ Includes(l, sHora)

\* Truthiness of a string or undefined
Truthy(s) == s # Undefined /\ s # <<>>

isOperatorLine(l) == StartsWith(l, sOperador) /\ Truthy(At(splitCsvLine(l), 1))

\* The indices of the lines that satisfy each scan's test.
signatureLines(ls) == {k \in 0..(Len(ls) - 1) : isSignature(At(ls, k))}
periodLines(ls) == {k \in 0..(Len(ls) - 1) : hasPeriodPart(At(ls, k))}
headerLines(ls) == {k \in 0..(Len(ls) - 1) : isHeaderRow(At(ls, k))}
operatorLines(ls) == {k \in 0..(Len(ls) - 1) : isOperatorLine(At(ls, k))}

\* The index at which a loop "for (i = 0; i < limit; i++)" leaves its body:
\* the first i whose line is undefined (the body's method call throws a
\* TypeError) or is one of stops; -1 when the loop runs to its limit.
FirstStop(ls, limit, stops) ==
  LET hits == {k \in 0..(limit - 1) : k >= Len(ls) \/ k \in stops}
  IN IF hits = {} THEN -1 ELSE SetMin(hits)

\* The loop ends in a TypeError: it reads a line that is undefined.
ScanThrows(ls, limit, stops) ==
  LET at == FirstStop(ls, limit, stops) IN at # -1 /\ At(ls, at) = Undefined

\* detectFormat with the attendant signature tested first.
detectFormatAttendantFirst(ls) ==
  LET at == FirstStop(ls, ScanBound(ls, ScanLimit), signatureLines(ls))
  IN IF at = -1 THEN UNKNOWN
     ELSE IF isAttendantSignature(At(ls, at)) THEN ATTENDANT
     ELSE SELF_SERVICE

\* detectFormat falling back to a known format when no signature matches.
detectFormatDefaulting(ls) ==
  LET at == FirstStop(ls, ScanBound(ls, ScanLimit), signatureLines(ls))
  IN IF at = -1 THEN SELF_SERVICE
     ELSE IF isSelfServiceSignature(At(ls, at)) THEN SELF_SERVICE
     ELSE ATTENDANT

\* detectFormat
detectFormat(ls) ==
  LET at == FirstStop(ls, ScanBound(ls, ScanLimit), signatureLines(ls))
  IN IF at = -1 THEN UNKNOWN
     ELSE IF isSelfServiceSignature(At(ls, at)) THEN SELF_SERVICE
     ELSE ATTENDANT

\* extractPeriod scanning the whole document.
extractPeriodWholeDocument(ls) ==
  LET at == FirstStop(ls, Len(ls), periodLines(ls))
  IN IF at = -1 THEN sPeriodoNaoIdentificado
     ELSE LET parts == SplitComma(At(ls, at))
              p == SetMin({q \in 1..Len(parts) : Includes(parts[q], sVendasDe)})
          IN Trim(ReplaceFirst(ReplaceFirst(parts[p], sVendasDe \o <<" ">>, <<>>),
                               sAte, <<" ", "-", " ">>))

\* extractPeriod
extractPeriod(ls) ==
  LET at == FirstStop(ls, ScanBound(ls, ScanLimit), periodLines(ls))
  IN IF at = -1 THEN sPeriodoNaoIdentificado
     ELSE LET parts == SplitComma(At(ls, at))
              p == SetMin({q \in 1..Len(parts) : Includes(parts[q], sVendasDe)})
          IN Trim(ReplaceFirst(ReplaceFirst(parts[p], sVendasDe \o <<" ">>, <<>>),
                               sAte, <<" ", "-", " ">>))

\* The header scan without the cap: over the whole document.
findHeaderIndexWholeDocument(ls) == FirstStop(ls, Len(ls), headerLines(ls))

\* The header row scan of parseCSV: the index of the first line with both
\* "Data" and "Hora", -1 when there is none.
findHeaderIndex(ls) == FirstStop(ls, ScanBound(ls, ScanLimit), headerLines(ls))

\* The scan for the unit name over the whole document.
operatorUnitNameWholeDocument(ls, unitName) ==
  IF unitName = sUnidadeDesconhecida /\ Len(ls) > 0
  THEN LET at == FirstStop(ls, Len(ls), operatorLines(ls))
       IN IF at = -1 THEN unitName
          ELSE Trim(RemoveAll(At(splitCsvLine(At(ls, at)), 1), Quotes))
  ELSE unitName

\* The scan for the unit name of a self-service report (lines 142-153):
\* the second field of the first "Operador:" line that has one.
operatorUnitName(ls, unitName) ==
  IF unitName = sUnidadeDesconhecida /\ Len(ls) > 0
  THEN LET at == FirstStop(ls, ScanBound(ls, OperatorScanLimit), operatorLines(ls))
       IN IF at = -1 THEN unitName
          ELSE Trim(RemoveAll(At(splitCsvLine(At(ls, at)), 1), Quotes))
  ELSE unitName

\* The unit name taken from the first column, the header label included.
clientUnitNameUnguarded(cols, unitName) ==
  IF unitName = sUnidadeDesconhecida /\ Truthy(At(cols, 0))
  THEN LET potentialName == Trim(RemoveAll(At(cols, 0), Quotes))
       IN IF potentialName # <<>> THEN potentialName ELSE unitName
  ELSE unitName

\* The unit name taken from the first column of an attendant row
\* (lines 175-180).
clientUnitName(cols, unitName) ==
  IF unitName = sUnidadeDesconhecida /\ Truthy(At(cols, 0))
  THEN LET potentialName == Trim(RemoveAll(At(cols, 0), Quotes))
       IN IF potentialName # <<>> /\ potentialName # sCliente
          THEN potentialName ELSE unitName
  ELSE unitName

\* A TypeError in one of the scans made on entry to parseCSV.
entryThrows(ls) ==
  \/ ScanThrows(ls, ScanBound(ls, ScanLimit), signatureLines(ls))
  \/ ScanThrows(ls, ScanBound(ls, ScanLimit), periodLines(ls))
  \/ ScanThrows(ls, ScanBound(ls, ScanLimit), headerLines(ls))

\* A TypeError in the "Operador:" scan.
operatorScanThrows(ls, unitName) ==
  /\ unitName = sUnidadeDesconhecida
  /\ Len(ls) > 0
  /\ ScanThrows(ls, ScanBound(ls, OperatorScanLimit), operatorLines(ls))

(***************************************************************************)
(* Date: the local wall-clock fields of new Date(y, m, d, h, mi, s) as a   *)
(* day number (days since 1970-01-01, a Thursday) and a second of the day. *)
(* The host's time zone moves the instant, not these fields, so getDay()   *)
(* is computed from them (a time inside a daylight-saving gap aside).      *)
(***************************************************************************)

\* Days from 1970-01-01 to the civil date y-m-d (m in 1..12).
DaysFromCivil(y, m, d) ==
  LET yy == IF m <= 2 THEN y - 1 ELSE y
      era == yy \div 400
      yoe == yy - era * 400
      mp == IF m > 2 THEN m - 3 ELSE m + 9
      doy == (153 * mp + 2) \div 5 + d - 1
      doe == yoe * 365 + yoe \div 4 - yoe \div 100 + doy
  IN era * 146097 + doe - 719468

InvalidDate == [valid |-> FALSE, day |-> 0, sec |-> 0]

\* The largest day number a Date holds (8.64e15 ms).
MaxDateDay == 10000 * 10000

\* The Date that refuses a day beyond the month's last one.
NewDateRejectingOverflow(year, monthIndex, day, hours, minutes, seconds) ==
  IF \E f \in {year, monthIndex, day, hours, minutes, seconds} : f.k # "num"
  THEN InvalidDate
  ELSE LET first == DaysFromCivil(year.m, monthIndex.m + 1, 1)
           next == DaysFromCivil(year.m, monthIndex.m + 2, 1)
           t == hours.m * 3600 + minutes.m * 60 + seconds.m
       IN IF day.m > next - first THEN InvalidDate
          ELSE [valid |-> TRUE, day |-> first + day.m - 1 + t \div 86400,
                sec |-> t % 86400]

\* new Date(year, monthIndex, day, hours, minutes, seconds): fields out of
\* range carry over; a NaN field gives an Invalid Date; years 0..99 mean
\* 1900..1999.
NewDate(year, monthIndex, day, hours, minutes, seconds) ==
  IF \E f \in {year, monthIndex, day, hours, minutes, seconds} : f.k # "num"
  THEN InvalidDate
  ELSE LET y == IF year.m >= 0 /\ year.m <= 99 THEN 1900 + year.m ELSE year.m
           ym == y + monthIndex.m \div 12
           mn == monthIndex.m % 12
           d0 == DaysFromCivil(ym, mn + 1, 1) + day.m - 1
           t == hours.m * 3600 + minutes.m * 60 + seconds.m
           dd == d0 + t \div 86400
       IN IF dd > MaxDateDay \/ dd < 0 - MaxDateDay THEN InvalidDate
          ELSE [valid |-> TRUE, day |-> dd, sec |-> t % 86400]

\* date.getDay(): 0 = Sunday; NaN for an Invalid Date
GetDay(date) == IF date.valid THEN Num((date.day + 4) % 7, 0) ELSE NaN

\* x - 1 on a number
MinusOne(x) == IF x.k = "num" THEN Num(x.m - 1, 0) ELSE x

\* The decimal text of a natural number (template literal `${i}`).
RECURSIVE NatToString(_)
NatToString(n) ==
  IF n < 10 THEN <<Digits[n + 1]>>
  ELSE NatToString(n \div 10) \o <<Digits[(n % 10) + 1]>>

\* cols[k]?.replace(/['"]/g, '').trim()
StripField(cols, k) ==
  IF At(cols, k) = Undefined THEN Undefined ELSE Trim(RemoveAll(At(cols, k), Quotes))

\* The date check without the shape: any three "/"-separated parts.
MatchesDatePatternLoose(s) == Len(SelectSeq(s, LAMBDA c : c = "/")) = 2

\* dateRaw.match(/^\d{2}\/\d{2}\/\d{4}$/)
MatchesDatePattern(s) ==
  /\ Len(s) = 10
  /\ \A k \in {1, 2, 4, 5, 7, 8, 9, 10} : s[k] \in DigitSet
  /\ s[3] = "/"
  /\ s[6] = "/"

\* s.split(sep) for a one-character separator
SplitChar(s, sep) ==
  LET cuts == SortedSeq({k \in 1..Len(s) : s[k] = sep}, s)
  IN PiecesFrom(s, [j \in 1..Len(cuts) |-> <<cuts[j], cuts[j]>>], 1)

\* parseInt(parts[k] || '0')
ParseIntOrZero(parts, k) ==
  IF At(parts, k) = Undefined \/ At(parts, k) = <<>> THEN Zero ELSE ParseInt(At(parts, k))

\* A value inside a template literal: undefined prints as "undefined".
TemplateText(v) ==
  IF v = Undefined THEN <<"u", "n", "d", "e", "f", "i", "n", "e", "d">> ELSE v

\* The id without the line index.
TransactionIdNoIndex(idx, date, time, machine) ==
  TemplateText(date) \o <<"-">> \o TemplateText(time) \o <<"-">> \o TemplateText(machine)

\* id: `${i}-${dateRaw}-${timeRaw}-${machineRaw}` (line 210)
TransactionId(idx, date, time, machine) ==
  NatToString(idx) \o <<"-">> \o TemplateText(date) \o <<"-">> \o TemplateText(time)
  \o <<"-">> \o TemplateText(machine)

\* The Transaction pushed for line index i (parseCSV, lines 192-220).
MakeTransaction(idx, machineRaw, amountRaw, dateRaw, timeRaw, paymentRaw) ==
  LET dateParts == SplitChar(dateRaw, "/")
      timeParts == IF Truthy(timeRaw) THEN SplitChar(timeRaw, ":")
                   ELSE <<<<"0", "0">>, <<"0", "0">>, <<"0", "0">>>>
      jsDate == NewDate(ParseInt(dateParts[3]),
                        MinusOne(ParseInt(dateParts[2])),
                        ParseInt(dateParts[1]),
                        ParseIntOrZero(timeParts, 0),
                        ParseIntOrZero(timeParts, 1),
                        ParseIntOrZero(timeParts, 2))
  IN [id |-> TransactionId(idx, dateRaw, timeRaw, machineRaw),
      date |-> jsDate,
      rawDate |-> dateRaw,
      rawTime |-> timeRaw,
      productName |-> machineRaw,
      type |-> determineCycleType(machineRaw),
      amount |-> parseCurrency(amountRaw),
      paymentMethod |-> paymentRaw,
      machine |-> machineRaw,
      dayOfWeek |-> GetDay(jsDate)]

\* The column maps with the attendant positions for every format.
ColumnMapAttendantOnly(fmt) ==
  [machine |-> 4, amount |-> 8, date |-> 12, time |-> 13, payment |-> 5,
   minCols |-> IF fmt = SELF_SERVICE THEN 12 ELSE 14]

\* The column maps with each column-count gate one too low.
ColumnMapOffByOne(fmt) ==
  IF fmt = SELF_SERVICE
  THEN [machine |-> 6, amount |-> 9, date |-> 10, time |-> 11, payment |-> 4,
        minCols |-> 11]
  ELSE [machine |-> 4, amount |-> 8, date |-> 12, time |-> 13, payment |-> 5,
        minCols |-> 13]

\* The column positions of each format and its minimum column count.
ColumnMap(fmt) ==
  IF fmt = SELF_SERVICE
  THEN [machine |-> 6, amount |-> 9, date |-> 10, time |-> 11, payment |-> 4,
        minCols |-> 12]
  ELSE [machine |-> 4, amount |-> 8, date |-> 12, time |-> 13, payment |-> 5,
        minCols |-> 14]

(***************************************************************************)
(* parseCSV as a state machine: one action for the entry code, one for     *)
(* each way an iteration of the row loop ends, one for the return.         *)
(***************************************************************************)

VARIABLES
  csvText,       \* the argument of the current call
  pc,            \* parseCSV: "start", "loop", "done" or "raised";
                 \* detectFormat alone: "detect" or "detected"
  lines,         \* const lines
  format,        \* const format
  period,        \* const period
  unitName,      \* let unitName
  headerIndex,   \* let headerIndex
  i,             \* the row loop's index
  transactions,  \* const transactions
  warnings,      \* the console.warn messages of the current call
  returned       \* the calls that returned: <<[text, result], ...>>

\* The App component (App.tsx).  A value that may be null is a sequence:
\* empty for null, of one element otherwise.
VARIABLES
  selfServiceData,      \* useState: the self-service slot's report data
  attendantData,        \* useState: the attendant slot's report data
  activeTab,            \* useState
  loading,              \* useState
  error,                \* useState
  files,                \* the argument of handleProcessFiles
  appPc,                \* handleProcessFiles: "idle", or the await or the
                        \* parseCSV call it stands at
  selfDataParsed,       \* let selfDataParsed
  attendantDataParsed,  \* let attendantDataParsed
  consoleLog,           \* what the current handleProcessFiles has logged
  uploads               \* the number of handleProcessFiles invocations

appVars == <<selfServiceData, attendantData, activeTab, loading, error, files,
             appPc, selfDataParsed, attendantDataParsed, consoleLog, uploads>>

vars == <<csvText, pc, lines, format, period, unitName, headerIndex, i,
          transactions, warnings, returned, appVars>>

Null == <<>>

\* The state after the first render (lines 18-23): no handler is running.
AppMounted ==
  /\ selfServiceData = Null
  /\ attendantData = Null
  /\ activeTab = "SELF_SERVICE"
  /\ loading = FALSE
  /\ error = Null
  /\ files = [selfService |-> Null, attendant |-> Null]
  /\ appPc = "idle"
  /\ selfDataParsed = Null
  /\ attendantDataParsed = Null
  /\ consoleLog = <<>>
  /\ uploads = 0

wHeaderNotFound == "Format detected but header row not found. Parsing might fail."

\* let unitName = "Unidade Desconhecida" (line 90)
freshUnitName(old) == sUnidadeDesconhecida
\* The list kept from one call to the next instead of created by the call.
staleTransactions(old) == old

\* const transactions = [] (line 89)
freshTransactions(old) == <<>>

\* Lines 86-109: split, detect, extract the period, find the header.
Start ==
  /\ pc = "start"
  /\ LET ls == SplitLines(csvText)
         fmt == detectFormat(ls)
         hdr == findHeaderIndex(ls)
     IN IF entryThrows(ls)
        THEN /\ pc' = "raised"
             /\ lines' = ls
             /\ UNCHANGED <<format, period, unitName, headerIndex, i,
                            transactions, warnings>>
        ELSE /\ pc' = "loop"
             /\ lines' = ls
             /\ format' = fmt
             /\ period' = extractPeriod(ls)
             /\ transactions' = freshTransactions(transactions)
             /\ unitName' = freshUnitName(unitName)
             /\ headerIndex' = hdr
             /\ warnings' = IF hdr = -1 /\ fmt # UNKNOWN
                            THEN <<wHeaderNotFound>> ELSE <<>>
             /\ i' = IF hdr = -1 THEN 0 ELSE hdr + 1
  /\ UNCHANGED <<csvText, returned>>
  /\ UNCHANGED appVars

\* The row loop stopping at the scans' cap.
RowLimitCapped(ls) == Min(Len(ls), ScanLimit)

\* The bound of the row loop (line 111): i < lines.length
RowLimit(ls) == Len(ls)

\* The row loop is at line index i.
AtRow == pc = "loop" /\ i < RowLimit(lines)

\* const line = lines[i].trim()
curLine == Trim(At(lines, i))
\* const cols = splitCsvLine(line)
curCols == splitCsvLine(curLine)

PassesPrefilter == ~isLineEmpty(curLine) /\ ~StartsWith(curLine, sTotal)

\* The row has the format's minimum column count
HasMinCols == Len(curCols) >= ColumnMap(format).minCols

\* Valid row check of the attendant format: a "/" in column 12
HasSlash == Truthy(At(curCols, 12)) /\ Includes(At(curCols, 12), <<"/">>)

\* The row reaches the common processing (line 186)
IsMapped ==
  /\ PassesPrefilter
  /\ format # UNKNOWN
  /\ HasMinCols
  /\ format = ATTENDANT => HasSlash

machineRaw == StripField(curCols, ColumnMap(format).machine)
amountRaw == StripField(curCols, ColumnMap(format).amount)
dateRaw == StripField(curCols, ColumnMap(format).date)
timeRaw == StripField(curCols, ColumnMap(format).time)
paymentRaw == StripField(curCols, ColumnMap(format).payment)

\* The strict date check of line 190 and the check of line 198
HasValidDate ==
  /\ Truthy(dateRaw)
  /\ MatchesDatePattern(dateRaw)
  /\ Len(SplitChar(dateRaw, "/")) = 3

\* unitName after the format's mapping block
mappedUnitName ==
  IF format = SELF_SERVICE THEN operatorUnitName(lines, unitName)
  ELSE clientUnitName(curCols, unitName)

mappingThrows == format = SELF_SERVICE /\ operatorScanThrows(lines, unitName)

Continue ==
  /\ i' = i + 1
  /\ UNCHANGED <<csvText, lines, format, period, headerIndex, warnings, returned>>
  /\ UNCHANGED appVars

\* Line 115: if (isLineEmpty(line)) continue
SkipEmptyLine ==
  /\ AtRow
  /\ isLineEmpty(curLine)
  /\ Continue
  /\ UNCHANGED <<pc, unitName, transactions>>

\* Line 116: if (line.startsWith("Total")) continue
SkipTotalLine ==
  /\ AtRow
  /\ ~isLineEmpty(curLine)
  /\ StartsWith(curLine, sTotal)
  /\ Continue
  /\ UNCHANGED <<pc, unitName, transactions>>

\* Lines 181-184: unknown format, skip
SkipUnknownFormat ==
  /\ AtRow
  /\ PassesPrefilter
  /\ format = UNKNOWN
  /\ Continue
  /\ UNCHANGED <<pc, unitName, transactions>>

\* Lines 134 and 163: too few columns for the format
SkipShortRow ==
  /\ AtRow
  /\ PassesPrefilter
  /\ format # UNKNOWN
  /\ ~HasMinCols
  /\ Continue
  /\ UNCHANGED <<pc, unitName, transactions>>

\* Line 166: an attendant row without a date in column 12
SkipNoSlash ==
  /\ AtRow
  /\ PassesPrefilter
  /\ format = ATTENDANT
  /\ HasMinCols
  /\ ~HasSlash
  /\ Continue
  /\ UNCHANGED <<pc, unitName, transactions>>

\* Lines 190 and 198: the mapped row has no well-shaped date (or the
\* mapping block's scan for the operator line throws)
SkipBadDate ==
  /\ AtRow
  /\ IsMapped
  /\ IF mappingThrows
     THEN pc' = "raised" /\ UNCHANGED unitName
     ELSE pc' = pc /\ unitName' = mappedUnitName /\ ~HasValidDate
  /\ Continue
  /\ UNCHANGED transactions

\* Lines 192-220: the row becomes a transaction
PushTransaction ==
  /\ AtRow
  /\ IsMapped
  /\ ~mappingThrows
  /\ HasValidDate
  /\ unitName' = mappedUnitName
  /\ transactions' = Append(transactions,
        MakeTransaction(i, machineRaw, amountRaw, dateRaw, timeRaw, paymentRaw))
  /\ Continue
  /\ UNCHANGED pc

\* Lines 223-230
Return ==
  /\ pc = "loop"
  /\ i >= RowLimit(lines)
  /\ pc' = "done"
  /\ returned' = Append(returned,
        [text |-> csvText,
         result |-> [metadata |-> [unitName |-> unitName,
                                   period |-> period,
                                   reportType |-> IF format = ATTENDANT
                                                  THEN ATTENDANT ELSE SELF_SERVICE],
                     transactions |-> transactions]])
  /\ UNCHANGED <<csvText, lines, format, period, unitName, headerIndex, i,
                 transactions, warnings>>
  /\ UNCHANGED appVars

(***************************************************************************)
(* Input documents                                                         *)
(***************************************************************************)

\* The header row of a self-service report (12 columns):
\*   ,,,,Pagamento,,Produtos,,,Total Venda,Data,Hora
lnHeaderA ==
  <<",", ",", ",", ",", "P", "a", "g", "a", "m", "e", "n", "t", "o", ",",
    ",", "P", "r", "o", "d", "u", "t", "o", "s", ",", ",", ",", "T", "o",
    "t", "a", "l", " ", "V", "e", "n", "d", "a", ",", "D", "a", "t", "a",
    ",", "H", "o", "r", "a">>
\* The header row of an attendant report (14 columns):
\*   Cliente,,,,Nome Terminal,Pagamento,,,Venda (R$),,,,Data,Hora
lnHeaderB ==
  <<"C", "l", "i", "e", "n", "t", "e", ",", ",", ",", ",", "N", "o", "m",
    "e", " ", "T", "e", "r", "m", "i", "n", "a", "l", ",", "P", "a", "g",
    "a", "m", "e", "n", "t", "o", ",", ",", ",", "V", "e", "n", "d", "a",
    " ", "(", "R", "$", ")", ",", ",", ",", ",", "D", "a", "t", "a", ",",
    "H", "o", "r", "a">>
\* An empty line:
\*   (empty)
lnBlank ==
  <<>>
\* A line of bare commas:
\*    ,,, 
lnCommas ==
  <<" ", ",", ",", ",", " ">>
\* A footer row that either format's mapping would accept:
\*   Total,,,,LAVA,Pix,LAVA,,5,5,05/03/2024,10:00,05/03/2024,10:00
lnTotal ==
  <<"T", "o", "t", "a", "l", ",", ",", ",", ",", "L", "A", "V", "A", ",",
    "P", "i", "x", ",", "L", "A", "V", "A", ",", ",", "5", ",", "5", ",",
    "0", "5", "/", "0", "3", "/", "2", "0", "2", "4", ",", "1", "0", ":",
    "0", "0", ",", "0", "5", "/", "0", "3", "/", "2", "0", "2", "4", ",",
    "1", "0", ":", "0", "0">>
\* The operator line of a self-service report:
\*   Operador:,"Loja 2"
lnOperator ==
  <<"O", "p", "e", "r", "a", "d", "o", "r", ":", ",", "\"", "L", "o", "j",
    "a", " ", "2", "\"">>
\* The period line:
\*   Periodo,Vendas de 01/03/2024 ate 31/03/2024
lnPeriod ==
  <<"P", "e", "r", "i", "o", "d", "o", ",", "V", "e", "n", "d", "a", "s",
    " ", "d", "e", " ", "0", "1", "/", "0", "3", "/", "2", "0", "2", "4",
    " ", "a", "t", "e", " ", "3", "1", "/", "0", "3", "/", "2", "0", "2",
    "4">>
\* A self-service data row (12 columns):
\*   ,,,,Pix,,4 - LAVA - 04,,,"15,90",05/03/2024,10:30:00
lnRowA ==
  <<",", ",", ",", ",", "P", "i", "x", ",", ",", "4", " ", "-", " ", "L",
    "A", "V", "A", " ", "-", " ", "0", "4", ",", ",", ",", "\"", "1", "5",
    ",", "9", "0", "\"", ",", "0", "5", "/", "0", "3", "/", "2", "0", "2",
    "4", ",", "1", "0", ":", "3", "0", ":", "0", "0">>
\* An attendant data row (14 columns):
\*   Loja 1,,,,SECA - 09,Pix,,,"R$ 1.234,56",,,,06/03/2024,11:00:00
lnRowB ==
  <<"L", "o", "j", "a", " ", "1", ",", ",", ",", ",", "S", "E", "C", "A",
    " ", "-", " ", "0", "9", ",", "P", "i", "x", ",", ",", ",", "\"", "R",
    "$", " ", "1", ".", "2", "3", "4", ",", "5", "6", "\"", ",", ",", ",",
    ",", "0", "6", "/", "0", "3", "/", "2", "0", "2", "4", ",", "1", "1",
    ":", "0", "0", ":", "0", "0">>
\* A row one column short of the self-service minimum:
\*   ,,,,Pix,,LAVA,,,5,05/03/2024
lnShort ==
  <<",", ",", ",", ",", "P", "i", "x", ",", ",", "L", "A", "V", "A", ",",
    ",", ",", "5", ",", "0", "5", "/", "0", "3", "/", "2", "0", "2", "4">>
\* A row that both mappings accept, with a negative or unparsable amount and an unparsable or overflowing time:
\*   Loja 3,,,,Lava e Seca,Dinheiro,4 - LAVA - 04,,"-5,00",garbage,07/03/2024,ab,07/03/2024,24:00:00
lnOdd ==
  <<"L", "o", "j", "a", " ", "3", ",", ",", ",", ",", "L", "a", "v", "a",
    " ", "e", " ", "S", "e", "c", "a", ",", "D", "i", "n", "h", "e", "i",
    "r", "o", ",", "4", " ", "-", " ", "L", "A", "V", "A", " ", "-", " ",
    "0", "4", ",", ",", "\"", "-", "5", ",", "0", "0", "\"", ",", "g", "a",
    "r", "b", "a", "g", "e", ",", "0", "7", "/", "0", "3", "/", "2", "0",
    "2", "4", ",", "a", "b", ",", "0", "7", "/", "0", "3", "/", "2", "0",
    "2", "4", ",", "2", "4", ":", "0", "0", ":", "0", "0">>

\* Field contents of the generated rows
\* Loja 1
fLoja == <<"L", "o", "j", "a", " ", "1">>
\* Total geral
fTotal == <<"T", "o", "t", "a", "l", " ", "g", "e", "r", "a", "l">>
\* Pix
fPix == <<"P", "i", "x">>
\* 4 - LAVA - 04
mLava == <<"4", " ", "-", " ", "L", "A", "V", "A", " ", "-", " ", "0", "4">>
\* SECA - 09
mSeca == <<"S", "E", "C", "A", " ", "-", " ", "0", "9">>
\* Lava e Seca
mBoth == <<"L", "a", "v", "a", " ", "e", " ", "S", "e", "c", "a">>
\* "LAVA D'AGUA"
mApostrophe ==
  <<"\"", "L", "A", "V", "A", " ", "D", "'", "A", "G", "U", "A", "\"">>
\* 15.9
aPlain == <<"1", "5", ".", "9">>
\* "R$ 1.234,56"
aBrazil == <<"\"", "R", "$", " ", "1", ".", "2", "3", "4", ",", "5", "6",
             "\"">>
\* garbage
aGarbage == <<"g", "a", "r", "b", "a", "g", "e">>
\* "-5,00"
aNegative == <<"\"", "-", "5", ",", "0", "0", "\"">>
\* 05/03/2024
dValid == <<"0", "5", "/", "0", "3", "/", "2", "0", "2", "4">>
\* 1/1/2024
dShort == <<"1", "/", "1", "/", "2", "0", "2", "4">>
\* 31/02/2024
dOverflow == <<"3", "1", "/", "0", "2", "/", "2", "0", "2", "4">>
\* 2024-01-01
dIso == <<"2", "0", "2", "4", "-", "0", "1", "-", "0", "1">>
\* "06/03/2024"
dQuoted == <<"\"", "0", "6", "/", "0", "3", "/", "2", "0", "2", "4", "\"">>
\* 10:30:00
tFull == <<"1", "0", ":", "3", "0", ":", "0", "0">>
\* 12:30
tHourMinute == <<"1", "2", ":", "3", "0">>
\* ab
tLetters == <<"a", "b">>
\* 24:00:00
tOverflow == <<"2", "4", ":", "0", "0", ":", "0", "0">>

\* A row with an unbalanced double quote:
\*   ,,,,Pix,,"LAVA,,,5,05/03/2024,10:00
lnUnbalanced ==
  <<",", ",", ",", ",", "P", "i", "x", ",", ",", "\"", "L", "A", "V", "A", ",", ",", ",",
    "5", ",", "0", "5", "/", "0", "3", "/", "2", "0", "2", "4", ",", "1", "0", ":", "0", "0">>

LibraryLines == {lnHeaderA, lnHeaderB, lnBlank, lnCommas, lnTotal, lnOperator,
                 lnPeriod, lnRowA, lnRowB, lnShort, lnOdd, lnUnbalanced}

FirstFields == {fLoja, fTotal}
MachineFields == {mLava, mSeca, mBoth, mApostrophe, <<>>}
AmountFields == {aPlain, aBrazil, aGarbage, aNegative, <<>>}
DateFields == {dValid, dShort, dOverflow, dIso, dQuoted}
TimeFields == {tFull, tHourMinute, tLetters, tOverflow, <<>>}
\* Columns a generated row has more than its format's minimum
ColumnDeltas == {-1, 0, 1}

\* The longest document made of library lines
MaxLines == 3

RECURSIVE JoinWith(_, _)
JoinWith(parts, sep) ==
  IF parts = <<>> THEN <<>>
  ELSE IF Len(parts) = 1 THEN parts[1]
  ELSE parts[1] \o sep \o JoinWith(Tail(parts), sep)

\* A row of the format fmt with the given fields at the format's positions.
GeneratedRow(fmt, first, m, a, d, t, delta) ==
  LET cm == ColumnMap(fmt)
      field(k) == IF k = cm.machine THEN m
                  ELSE IF k = cm.amount THEN a
                  ELSE IF k = cm.date THEN d
                  ELSE IF k = cm.time THEN t
                  ELSE IF k = cm.payment THEN fPix
                  ELSE IF k = 0 THEN first
                  ELSE <<>>
  IN JoinWith([k \in 1..(cm.minCols + delta) |-> field(k - 1)], <<",">>)

HeaderOf(fmt) == IF fmt = SELF_SERVICE THEN lnHeaderA ELSE lnHeaderB

\* Documents of up to MaxLines library lines, in any order
LibraryDocuments ==
  {JoinWith(d, <<"\n">>) :
     d \in UNION {[1..n -> LibraryLines] : n \in 1..MaxLines}} \cup {<<>>}

\* A header row and one generated row, with "\r\n" line ends
RowDocuments ==
  {JoinWith(<<HeaderOf(fmt), GeneratedRow(fmt, first, m, a, d, t, delta)>>, <<"\r", "\n">>) :
     fmt \in {SELF_SERVICE, ATTENDANT}, first \in FirstFields, m \in MachineFields,
     a \in AmountFields, d \in DateFields, t \in TimeFields, delta \in ColumnDeltas}

\* An operator line without a second field:
\*   Operador:
lnOperatorBare ==
  <<"O", "p", "e", "r", "a", "d", "o", "r", ":">>
\* An operator line with another name:
\*   Operador:, Loja 7 ,x
lnOperatorOther ==
  <<"O", "p", "e", "r", "a", "d", "o", "r", ":", ",", " ", "L", "o", "j",
    "a", " ", "7", " ", ",", "x">>

\* The lines that follow the blank lines of a padded document
OperatorTails ==
  {<<lnOperator, lnHeaderA, lnRowA>>,
   <<lnOperator, lnOperatorOther, lnHeaderA, lnRowA>>,
   <<lnOperatorBare, lnOperatorOther, lnHeaderA, lnRowA>>,
   <<lnOperatorOther, lnHeaderA, lnShort, lnTotal>>,
   <<lnOperator, lnHeaderB, lnRowB>>}
\* The numbers of blank lines: the first line after them is one of the last
\* two the operator scan visits, or the first one it does not visit
OperatorPaddings == {OperatorScanLimit - 2, OperatorScanLimit - 1, OperatorScanLimit}

\* Blank lines, then an operator line, a header row and data rows
PaddedDocuments ==
  {JoinWith([k \in 1..n |-> lnBlank] \o tail, <<"\n">>) :
     n \in OperatorPaddings, tail \in OperatorTails}

\* " Loja 9 "
fLojaQuoted ==
  <<"\"", " ", "L", "o", "j", "a", " ", "9", " ", "\"">>

\* An attendant header row, a generated row whose first column is empty,
\* the header label or a quoted name, and an attendant data row
ClientDocuments ==
  {JoinWith(<<lnHeaderB, GeneratedRow(ATTENDANT, first, mSeca, aPlain, d, tFull, delta),
              lnRowB>>, <<"\n">>) :
     first \in {<<>>, sCliente, fLojaQuoted}, d \in {dValid, dShort, dIso},
     delta \in {-1, 0}}

Documents ==
  LibraryDocuments \cup RowDocuments \cup PaddedDocuments \cup ClientDocuments

NoLocals ==
  /\ lines = <<>>
  /\ format = UNKNOWN
  /\ period = <<>>
  /\ unitName = <<>>
  /\ headerIndex = -1
  /\ i = 0
  /\ transactions = <<>>
  /\ warnings = <<>>

Init ==
  /\ csvText \in Documents
  /\ pc = "start"
  /\ returned = <<>>
  /\ NoLocals
  /\ AppMounted

Next ==
  \/ Start
  \/ SkipEmptyLine
  \/ SkipTotalLine
  \/ SkipUnknownFormat
  \/ SkipShortRow
  \/ SkipNoSlash
  \/ SkipBadDate
  \/ PushTransaction
  \/ Return

Spec == Init /\ [][Next]_vars

(***************************************************************************)
(* Several calls of parseCSV, one after the other.  The variables of the   *)
(* call that returned keep their last values until the next call's entry   *)
(* code assigns them.                                                      *)
(***************************************************************************)

\* The number of calls in a run
MaxCalls == 3

CallTexts ==
  {JoinWith(<<lnOperator, lnHeaderA, lnRowA, lnTotal, lnShort, lnRowB, lnBlank>>, <<"\n">>),
   JoinWith(<<lnHeaderB, lnRowB, lnHeaderB, lnOdd>>, <<"\n">>),
   JoinWith(<<lnRowA, lnBlank, lnRowB>>, <<"\n">>),
   JoinWith(<<lnPeriod, lnHeaderA, lnOdd, lnRowA>>, <<"\r", "\n">>)}

InitCalls ==
  /\ csvText \in CallTexts
  /\ pc = "start"
  /\ returned = <<>>
  /\ NoLocals
  /\ AppMounted

\* The caller calls parseCSV again, on the same text or on another one.
CallAgain ==
  /\ pc = "done"
  /\ Len(returned) < MaxCalls
  /\ csvText' \in CallTexts
  /\ pc' = "start"
  /\ UNCHANGED <<lines, format, period, unitName, headerIndex, i, transactions,
                 warnings, returned>>
  /\ UNCHANGED appVars

NextCalls == Next \/ CallAgain

SpecCalls == InitCalls /\ [][NextCalls]_vars

(***************************************************************************)
(* detectFormat alone, on documents that grow by lines inserted before the *)
(* signature line.  lines is the document, format the format detected for  *)
(* it before the last insertion.                                           *)
(***************************************************************************)

\* Lines that match neither signature
UnrelatedLines == {lnBlank, lnPeriod}

DetectDocuments ==
  UNION {[1..n -> {lnHeaderA, lnHeaderB} \cup UnrelatedLines] : n \in 1..MaxLines}

\* The numbers of lines inserted at once
InsertCounts == {1, ScanLimit - 1, ScanLimit}

\* The index of the first line that matches a signature, -1 when none does
FirstSignatureIndex(ls) == FirstStop(ls, Len(ls), signatureLines(ls))

InitDetect ==
  /\ lines \in DetectDocuments
  /\ pc = "detect"
  /\ format = UNKNOWN
  /\ csvText = <<>>
  /\ period = <<>>
  /\ unitName = <<>>
  /\ headerIndex = -1
  /\ i = 0
  /\ transactions = <<>>
  /\ warnings = <<>>
  /\ returned = <<>>
  /\ AppMounted

\* const format = detectFormat(lines)
DetectFormat ==
  /\ pc = "detect"
  /\ format' = detectFormat(lines)
  /\ pc' = "detected"
  /\ UNCHANGED <<csvText, lines, period, unitName, headerIndex, i, transactions,
                 warnings, returned>>
  /\ UNCHANGED appVars

\* n copies of an unrelated line are inserted at the top of the document or
\* right before its signature line; the format is then detected again.
InsertUnrelated ==
  /\ pc = "detected"
  /\ format # UNKNOWN
  /\ Len(lines) <= MaxLines
  /\ \E l \in UnrelatedLines, n \in InsertCounts, at \in {0, FirstSignatureIndex(lines)} :
       lines' = SubSeq(lines, 1, at) \o [k \in 1..n |-> l]
                \o SubSeq(lines, at + 1, Len(lines))
  /\ pc' = "detect"
  /\ UNCHANGED <<csvText, format, period, unitName, headerIndex, i, transactions,
                 warnings, returned>>
  /\ UNCHANGED appVars

NextDetect == DetectFormat \/ InsertUnrelated

SpecDetect == InitDetect /\ [][NextDetect]_vars

(***************************************************************************)
(* parseCurrency alone.  csvText is the argument of the call; the call      *)
(* that returned is recorded in returned.                                  *)
(***************************************************************************)

\* Numeric texts, each with the number it denotes in Brazilian or plain
\* notation
\* 1.234,56
cThousands ==
  <<"1", ".", "2", "3", "4", ",", "5", "6">>
\* 1.234.567,89
cMillions ==
  <<"1", ".", "2", "3", "4", ".", "5", "6", "7", ",", "8", "9">>
\* 1,234.5
cDotAfterComma ==
  <<"1", ",", "2", "3", "4", ".", "5">>
\* 15,9
cComma ==
  <<"1", "5", ",", "9">>
\* 15,90
cCommaZero ==
  <<"1", "5", ",", "9", "0">>
\* 0,05
cCommaFirst ==
  <<"0", ",", "0", "5">>
\* 15.9
cDot ==
  <<"1", "5", ".", "9">>
\* 1234.56
cDotLong ==
  <<"1", "2", "3", "4", ".", "5", "6">>
\* 15
cInteger ==
  <<"1", "5">>
CurrencyBodies ==
  {[text |-> cThousands, value |-> Num(123456, 2)],
   [text |-> cMillions, value |-> Num(123456789, 2)],
   [text |-> cDotAfterComma, value |-> Num(12345, 4)],
   [text |-> cComma, value |-> Num(159, 1)],
   [text |-> cCommaZero, value |-> Num(159, 1)],
   [text |-> cCommaFirst, value |-> Num(5, 2)],
   [text |-> cDot, value |-> Num(159, 1)],
   [text |-> cDotLong, value |-> Num(123456, 2)],
   [text |-> cInteger, value |-> Num(15, 0)]}
\* What surrounds the numeric text: a pair of quotes, white space, the symbol
CurrencyWraps == {<<>>, <<"\"">>, <<"'">>}
CurrencyPads == {<<>>, <<" ">>}
CurrencySymbols == {<<>>, <<"R", "$">>, <<"R", "$", " ">>}

CurrencyText(wrap, pad, symbol, body) ==
  wrap \o pad \o symbol \o body \o pad \o wrap

CurrencyInputs ==
  {CurrencyText(wrap, pad, symbol, b.text) :
     wrap \in CurrencyWraps, pad \in CurrencyPads, symbol \in CurrencySymbols,
     b \in CurrencyBodies}

InitCurrency ==
  /\ csvText \in CurrencyInputs
  /\ pc = "call"
  /\ returned = <<>>
  /\ NoLocals
  /\ AppMounted

\* parseCurrency(csvText)
ParseCurrency ==
  /\ pc = "call"
  /\ returned' = Append(returned, [text |-> csvText, result |-> parseCurrency(csvText)])
  /\ pc' = "applied"
  /\ UNCHANGED <<csvText, lines, format, period, unitName, headerIndex, i,
                 transactions, warnings>>
  /\ UNCHANGED appVars

NextCurrency == ParseCurrency

SpecCurrency == InitCurrency /\ [][NextCurrency]_vars


(***************************************************************************)
(* determineCycleType alone.  csvText is the label the call is given.      *)
(***************************************************************************)

\* The words of a label, each with the marker it carries
\* (empty)
wNone ==
  <<>>
\* lava
wLavaLower ==
  <<"l", "a", "v", "a">>
\* LAVA
wLavaUpper ==
  <<"L", "A", "V", "A">>
\* Lava
wLavaMixed ==
  <<"L", "a", "v", "a">>
\* seca
wSecaLower ==
  <<"s", "e", "c", "a">>
\* SECA
wSecaUpper ==
  <<"S", "E", "C", "A">>
\* SeCa
wSecaMixed ==
  <<"S", "e", "C", "a">>
\* lavo
wLavo ==
  <<"l", "a", "v", "o">>
\* SECO
wSeco ==
  <<"S", "E", "C", "O">>
LabelWords ==
  {[text |-> wNone, marker |-> "none"],
   [text |-> wLavaLower, marker |-> "lava"],
   [text |-> wLavaUpper, marker |-> "lava"],
   [text |-> wLavaMixed, marker |-> "lava"],
   [text |-> wSecaLower, marker |-> "seca"],
   [text |-> wSecaUpper, marker |-> "seca"],
   [text |-> wSecaMixed, marker |-> "seca"],
   [text |-> wLavo, marker |-> "none"],
   [text |-> wSeco, marker |-> "none"]}
\* What stands before, between and after the two words of a label
LabelPrefixes == {<<>>, <<"4", " ", "-", " ">>}
LabelInfixes == {<<>>, <<" ", "E", " ">>}
LabelSuffixes == {<<>>, <<" ", "-", " ", "0", "2">>}

LabelText(prefix, w1, infix, w2, suffix) ==
  prefix \o w1.text \o infix \o w2.text \o suffix

CycleLabels ==
  {LabelText(prefix, w1, infix, w2, suffix) :
     prefix \in LabelPrefixes, w1 \in LabelWords, infix \in LabelInfixes,
     w2 \in LabelWords, suffix \in LabelSuffixes}

InitCycleType ==
  /\ csvText \in CycleLabels
  /\ pc = "call"
  /\ returned = <<>>
  /\ NoLocals
  /\ AppMounted

\* determineCycleType(csvText)
DetermineCycleType ==
  /\ pc = "call"
  /\ returned' = Append(returned, [text |-> csvText,
                                    result |-> determineCycleType(csvText)])
  /\ pc' = "applied"
  /\ UNCHANGED <<csvText, lines, format, period, unitName, headerIndex, i,
                 transactions, warnings>>
  /\ UNCHANGED appVars

NextCycleType == DetermineCycleType

SpecCycleType == InitCycleType /\ [][NextCycleType]_vars

(***************************************************************************)
(* The two scans at the entry of parseCSV (lines 87-88), detectFormat and   *)
(* extractPeriod, on documents long enough to cross the scans' limit: blank *)
(* lines followed by a few lines that carry a signature or a period.       *)
(***************************************************************************)

\* A header row that matches both signatures:
\*   Cliente,,,,Nome Terminal,Pagamento,Produtos,,Venda (R$),Total Venda,,,Data,Hora
lnHeaderBoth ==
  <<"C", "l", "i", "e", "n", "t", "e", ",", ",", ",", ",", "N", "o", "m",
    "e", " ", "T", "e", "r", "m", "i", "n", "a", "l", ",", "P", "a", "g",
    "a", "m", "e", "n", "t", "o", ",", "P", "r", "o", "d", "u", "t", "o",
    "s", ",", ",", "V", "e", "n", "d", "a", " ", "(", "R", "$", ")", ",",
    "T", "o", "t", "a", "l", " ", "V", "e", "n", "d", "a", ",", ",", ",",
    "D", "a", "t", "a", ",", "H", "o", "r", "a">>
\* A second period line, with the period in its first field:
\*   Vendas de 01/04/2024 ate 30/04/2024,,
lnPeriodApril ==
  <<"V", "e", "n", "d", "a", "s", " ", "d", "e", " ", "0", "1", "/", "0",
    "4", "/", "2", "0", "2", "4", " ", "a", "t", "e", " ", "3", "0", "/",
    "0", "4", "/", "2", "0", "2", "4", ",", ",">>

\* The lines after the blank ones
ScanLines == {lnHeaderA, lnHeaderB, lnHeaderBoth, lnPeriod, lnPeriodApril}
\* The most lines after the blank ones
MaxTail == 2
\* The numbers of blank lines
ScanPaddings == {0, ScanLimit - 2, ScanLimit - 1, ScanLimit}

ScanDocuments ==
  {[k \in 1..n |-> lnBlank] \o tail :
     n \in ScanPaddings, tail \in UNION {[1..m -> ScanLines] : m \in 1..MaxTail}}

InitScan ==
  /\ lines \in ScanDocuments
  /\ pc = "detect"
  /\ format = UNKNOWN
  /\ csvText = <<>>
  /\ period = <<>>
  /\ unitName = <<>>
  /\ headerIndex = -1
  /\ i = 0
  /\ transactions = <<>>
  /\ warnings = <<>>
  /\ returned = <<>>
  /\ AppMounted

\* const period = extractPeriod(lines)
ExtractPeriod ==
  /\ pc = "detected"
  /\ period' = extractPeriod(lines)
  /\ pc' = "extracted"
  /\ UNCHANGED <<csvText, lines, format, unitName, headerIndex, i, transactions,
                 warnings, returned>>
  /\ UNCHANGED appVars

NextScan == DetectFormat \/ ExtractPeriod

SpecScan == InitScan /\ [][NextScan]_vars

(***************************************************************************)
(* App.handleProcessFiles (App.tsx, lines 40-91), with handleReset.  The    *)
(* handler runs up to an await, and from the settled await up to the next  *)
(* one; it calls parseCSV, whose steps are the actions above.  While       *)
(* loading is true the App renders the loader only, so no other handler    *)
(* can start.                                                              *)
(***************************************************************************)

\* The texts of the files the user can pick: a self-service report, an
\* attendant report, a file of no known format
docSelfService ==
  JoinWith(<<lnOperator, lnHeaderA, lnRowA, lnBlank, lnTotal, lnShort>>, <<"\n">>)
docAttendant ==
  JoinWith(<<lnHeaderB, lnHeaderB, lnRowB,
             GeneratedRow(ATTENDANT, fLoja, mSeca, aPlain, dShort, tFull, 0)>>, <<"\n">>)
docUnknown == lnRowA

\* A File: its text, and whether the FileReader can read it
UploadFiles ==
  {[text |-> t, readable |-> TRUE] : t \in {docSelfService, docAttendant, docUnknown}}
  \cup {[text |-> <<>>, readable |-> FALSE]}
\* What a slot of the upload form holds: null or a File
SlotChoices == {Null} \cup {<<f>> : f \in UploadFiles}

\* The number of uploads in a run
MaxUploads == 2

mAttendantInSelfService == "Warning: Attendant file uploaded in Self-Service slot"
mSelfServiceInAttendant == "Warning: Self-Service file uploaded in Attendant slot"
mReadError == "console.error(err)"
mErrorMessage == "Erro ao processar os arquivos. Verifique se estão no formato CSV correto."

\* const hasData = selfServiceData || attendantData (line 133)
hasData == selfServiceData # Null \/ attendantData # Null

\* The slot keeps the parse whatever its report type.  As mutant: only when
\* the report type is the slot's.
isStoredIfMatching(parsed, slotType) ==
  Len(parsed.transactions) > 0 /\ parsed.metadata.reportType = slotType

\* The slot keeps every parse, also one without transactions.
isStoredAlways(parsed, slotType) == TRUE

\* if (parsed.transactions.length > 0) (lines 53 and 66)
isStored(parsed, slotType) == Len(parsed.transactions) > 0

\* Determine initial tab (lines 76-83)
InitialTab(selfParsed, attendantParsed, tab) ==
  IF selfParsed # Null /\ attendantParsed # Null THEN "FINANCIAL"
  ELSE IF selfParsed # Null THEN "SELF_SERVICE"
  ELSE IF attendantParsed # Null THEN "ATTENDANT"
  ELSE tab

\* The catch without the finally: loading stays as it is.
CatchWithoutFinally ==
  /\ consoleLog' = Append(consoleLog, mReadError)
  /\ error' = <<mErrorMessage>>
  /\ loading' = loading
  /\ appPc' = "idle"

\* catch and finally (lines 85-90)
Catch ==
  /\ consoleLog' = Append(consoleLog, mReadError)
  /\ error' = <<mErrorMessage>>
  /\ loading' = FALSE
  /\ appPc' = "idle"

parserVars == <<csvText, pc, lines, format, period, unitName, headerIndex, i,
                transactions, warnings, returned>>

InitApp ==
  /\ csvText = <<>>
  /\ pc = "idle"
  /\ returned = <<>>
  /\ NoLocals
  /\ AppMounted

\* The upload form calls handleProcessFiles (FileUpload.tsx line 41; the
\* form is rendered when nothing is loading and no slot has data, and calls
\* with at least one file): lines 41-52, up to the first await.
HandleProcessFiles ==
  /\ appPc = "idle"
  /\ ~loading
  /\ ~hasData
  /\ uploads < MaxUploads
  /\ \E fs \in [selfService : SlotChoices, attendant : SlotChoices] :
       /\ fs.selfService # Null \/ fs.attendant # Null
       /\ files' = fs
       /\ appPc' = IF fs.selfService # Null THEN "readSelfService" ELSE "readAttendant"
  /\ loading' = TRUE
  /\ error' = Null
  /\ selfServiceData' = Null
  /\ attendantData' = Null
  /\ selfDataParsed' = Null
  /\ attendantDataParsed' = Null
  /\ consoleLog' = <<>>
  /\ uploads' = uploads + 1
  /\ UNCHANGED <<activeTab, parserVars>>

\* await readFile(files.selfService) resolves; parseCSV(content) is called
\* (lines 51-52).
ReadSelfServiceResolves ==
  /\ appPc = "readSelfService"
  /\ files.selfService[1].readable
  /\ csvText' = files.selfService[1].text
  /\ pc' = "start"
  /\ appPc' = "parseSelfService"
  /\ UNCHANGED <<lines, format, period, unitName, headerIndex, i, transactions,
                 warnings, returned>>
  /\ UNCHANGED <<selfServiceData, attendantData, activeTab, loading, error, files,
                 selfDataParsed, attendantDataParsed, consoleLog, uploads>>

\* await readFile(files.selfService) rejects (reader.onerror, line 35).
ReadSelfServiceRejects ==
  /\ appPc = "readSelfService"
  /\ ~files.selfService[1].readable
  /\ Catch
  /\ UNCHANGED <<selfServiceData, attendantData, activeTab, files, selfDataParsed,
                 attendantDataParsed, uploads>>
  /\ UNCHANGED parserVars

\* parseCSV has returned (or raised): lines 53-64, up to the second await,
\* or lines 53-90 when there is no attendant file.
SelfServiceParsed ==
  /\ appPc = "parseSelfService"
  /\ pc \in {"done", "raised"}
  /\ IF pc = "raised"
     THEN /\ Catch
          /\ UNCHANGED <<selfServiceData, selfDataParsed, activeTab>>
     ELSE LET parsed == returned[Len(returned)].result
              stored == isStored(parsed, SELF_SERVICE)
              after == IF stored THEN <<parsed>> ELSE selfDataParsed
          IN /\ selfDataParsed' = after
             /\ selfServiceData' = IF stored THEN <<parsed>> ELSE selfServiceData
             /\ consoleLog' = IF stored /\ parsed.metadata.reportType = ATTENDANT
                              THEN Append(consoleLog, mAttendantInSelfService)
                              ELSE consoleLog
             /\ IF files.attendant # Null
                THEN /\ appPc' = "readAttendant"
                     /\ UNCHANGED <<activeTab, loading>>
                ELSE /\ appPc' = "idle"
                     /\ activeTab' = InitialTab(after, attendantDataParsed, activeTab)
                     /\ loading' = FALSE
             /\ UNCHANGED error
  /\ UNCHANGED <<attendantData, files, attendantDataParsed, uploads>>
  /\ UNCHANGED parserVars

\* await readFile(files.attendant) resolves; parseCSV(content) is called
\* (lines 64-65).
ReadAttendantResolves ==
  /\ appPc = "readAttendant"
  /\ files.attendant[1].readable
  /\ csvText' = files.attendant[1].text
  /\ pc' = "start"
  /\ appPc' = "parseAttendant"
  /\ UNCHANGED <<lines, format, period, unitName, headerIndex, i, transactions,
                 warnings, returned>>
  /\ UNCHANGED <<selfServiceData, attendantData, activeTab, loading, error, files,
                 selfDataParsed, attendantDataParsed, consoleLog, uploads>>

\* await readFile(files.attendant) rejects.
ReadAttendantRejects ==
  /\ appPc = "readAttendant"
  /\ ~files.attendant[1].readable
  /\ Catch
  /\ UNCHANGED <<selfServiceData, attendantData, activeTab, files, selfDataParsed,
                 attendantDataParsed, uploads>>
  /\ UNCHANGED parserVars

\* parseCSV has returned (or raised): lines 66-90.
AttendantParsed ==
  /\ appPc = "parseAttendant"
  /\ pc \in {"done", "raised"}
  /\ IF pc = "raised"
     THEN /\ Catch
          /\ UNCHANGED <<attendantData, attendantDataParsed, activeTab>>
     ELSE LET parsed == returned[Len(returned)].result
              stored == isStored(parsed, ATTENDANT)
              after == IF stored THEN <<parsed>> ELSE attendantDataParsed
          IN /\ attendantDataParsed' = after
             /\ attendantData' = IF stored THEN <<parsed>> ELSE attendantData
             /\ consoleLog' = IF stored /\ parsed.metadata.reportType = SELF_SERVICE
                              THEN Append(consoleLog, mSelfServiceInAttendant)
                              ELSE consoleLog
             /\ activeTab' = InitialTab(selfDataParsed, after, activeTab)
             /\ loading' = FALSE
             /\ appPc' = "idle"
             /\ UNCHANGED error
  /\ UNCHANGED <<selfServiceData, files, selfDataParsed, uploads>>
  /\ UNCHANGED parserVars

\* handleReset (lines 93-97), from the button of the navigation bar, which
\* is rendered when a slot has data and nothing is loading.
HandleReset ==
  /\ appPc = "idle"
  /\ ~loading
  /\ hasData
  /\ selfServiceData' = Null
  /\ attendantData' = Null
  /\ error' = Null
  /\ UNCHANGED <<activeTab, loading, files, appPc, selfDataParsed,
                 attendantDataParsed, consoleLog, uploads>>
  /\ UNCHANGED parserVars

\* The tab buttons of the navigation bar (lines 197-253): one for each slot
\* that has data, the comparison when both have, the financial one always.
TabButtons ==
  (IF selfServiceData # Null THEN {"SELF_SERVICE"} ELSE {})
  \cup (IF attendantData # Null THEN {"ATTENDANT"} ELSE {})
  \cup (IF selfServiceData # Null /\ attendantData # Null THEN {"COMPARISON"} ELSE {})
  \cup {"FINANCIAL"}

\* A click on a tab button: setActiveTab(tab).  The navigation bar is
\* rendered when a slot has data and nothing is loading.
ClickTab ==
  /\ appPc = "idle"
  /\ ~loading
  /\ hasData
  /\ \E tab \in TabButtons : activeTab' = tab
  /\ UNCHANGED <<selfServiceData, attendantData, loading, error, files, appPc,
                 selfDataParsed, attendantDataParsed, consoleLog, uploads>>
  /\ UNCHANGED parserVars

NextApp ==
  \/ HandleProcessFiles
  \/ ReadSelfServiceResolves
  \/ ReadSelfServiceRejects
  \/ SelfServiceParsed
  \/ ReadAttendantResolves
  \/ ReadAttendantRejects
  \/ AttendantParsed
  \/ HandleReset
  \/ ClickTab
  \/ Next

SpecApp == InitApp /\ [][NextApp]_vars

\* parseCSV has a step to take: exactly when it is at its entry or in its
\* row loop.
ParserRuns == pc \in {"start", "loop"}

\* The handler once started runs on: each FileReader settles (onload or
\* onerror fires), and the synchronous code after an await, parseCSV
\* included, runs to the next await or to the end.  Uploads, resets and tab
\* clicks are the user's and need not happen.  The last conjunct is
\* WF_vars(Next) with ENABLED <<Next>>_vars written out as ParserRuns.
HandlerRunsOn ==
  /\ WF_vars(ReadSelfServiceResolves)
  /\ WF_vars(ReadSelfServiceRejects)
  /\ WF_vars(SelfServiceParsed)
  /\ WF_vars(ReadAttendantResolves)
  /\ WF_vars(ReadAttendantRejects)
  /\ WF_vars(AttendantParsed)
  /\ ([]<>(~ParserRuns) \/ []<><<Next>>_vars)

SpecAppFair == SpecApp /\ HandlerRunsOn

(***************************************************************************)
(* parseCSV on documents longer than the scans' cap: a title line or       *)
(* nothing, blank lines up to the cap, then a header row and data rows;    *)
(* and on short documents with a row, a title or a footer before the       *)
(* header row.                                                             *)
(***************************************************************************)

\* A title line with the self-service signature and no "Hora":
\*   Produtos,Total Venda,Data
lnTitle ==
  <<"P", "r", "o", "d", "u", "t", "o", "s", ",", "T", "o", "t", "a", "l",
    " ", "V", "e", "n", "d", "a", ",", "D", "a", "t", "a">>

\* An attendant row whose date field has no "/"
lnRowNoSlash == GeneratedRow(ATTENDANT, fLoja, mSeca, aPlain, dIso, tFull, 0)

\* The text of the lines of prefix, n empty lines and the lines of tail
GappedDocument(prefix, n, tail) ==
  (IF prefix = <<>> THEN <<>> ELSE JoinWith(prefix, <<"\n">>) \o <<"\n">>)
  \o [k \in 1..n |-> "\n"] \o JoinWith(tail, <<"\n">>)

LongPrefixes == {<<>>, <<lnTitle>>}
LongPaddings == {ScanLimit - 1, ScanLimit}
LongTail == <<lnHeaderA, lnRowA, lnRowA>>

\* The most empty lines of a short document
MaxGap == 1
ShortPrefixes == {<<>>, <<lnTitle>>, <<lnRowA>>, <<lnRowB>>, <<lnTotal>>}
ShortTails ==
  {<<lnHeaderA, lnRowA, lnRowA>>, <<lnRowA>>, <<lnHeaderA, lnShort, lnOdd>>,
   <<lnHeaderB, lnRowB, lnOdd>>, <<lnHeaderB, lnRowNoSlash, lnRowB>>}

ShortDocuments ==
  {GappedDocument(prefix, n, tail) :
     prefix \in ShortPrefixes, n \in 0..MaxGap, tail \in ShortTails}

LongDocuments ==
  {GappedDocument(prefix, n, LongTail) : prefix \in LongPrefixes, n \in LongPaddings}
  \cup ShortDocuments

InitLong ==
  /\ csvText \in LongDocuments
  /\ pc = "start"
  /\ returned = <<>>
  /\ NoLocals
  /\ AppMounted

SpecLong == InitLong /\ [][Next]_vars

(***************************************************************************)
(* splitCsvLine alone.  csvText is the line the call is given.             *)
(***************************************************************************)

\* The fields of a line: empty, plain, quoted with and without commas, and
\* with a quoted part in the middle
\*   a
fPlain == <<"a">>
\*   "b,c"
fQuotedComma == <<"\"", "b", ",", "c", "\"">>
\*   ","
fQuotedOnlyComma == <<"\"", ",", "\"">>
\*   ""
fQuotedEmpty == <<"\"", "\"">>
\*   x"y,,z"w
fQuotedInside == <<"x", "\"", "y", ",", ",", "z", "\"", "w">>
\*   "d
fOpenQuote == <<"\"", "d">>

BalancedFields == {<<>>, fPlain, fQuotedComma, fQuotedOnlyComma, fQuotedEmpty, fQuotedInside}
SplitFields == BalancedFields \cup {fOpenQuote}

\* The most fields of a line
MaxFields == 3

FieldLists(fields) == UNION {[1..n -> fields] : n \in 1..MaxFields}

SplitInputs == {JoinWith(fs, <<",">>) : fs \in FieldLists(SplitFields)}

InitSplit ==
  /\ csvText \in SplitInputs
  /\ pc = "call"
  /\ returned = <<>>
  /\ NoLocals
  /\ AppMounted

\* splitCsvLine(csvText)
SplitCsvLine ==
  /\ pc = "call"
  /\ returned' = Append(returned, [text |-> csvText, result |-> splitCsvLine(csvText)])
  /\ pc' = "applied"
  /\ UNCHANGED <<csvText, lines, format, period, unitName, headerIndex, i,
                 transactions, warnings>>
  /\ UNCHANGED appVars

NextSplit == SplitCsvLine

SpecSplit == InitSplit /\ [][NextSplit]_vars


(***************************************************************************)
(* parseCSV on a header row and one row whose date and time fields range   *)
(* over calendar dates and clock times, and on the short documents.        *)
(***************************************************************************)

\* 29/02/2024
dLeapDay ==
  <<"2", "9", "/", "0", "2", "/", "2", "0", "2", "4">>
\* 31/12/1999
dCenturyEnd ==
  <<"3", "1", "/", "1", "2", "/", "1", "9", "9", "9">>
\* 01/01/0100
dYear100 ==
  <<"0", "1", "/", "0", "1", "/", "0", "1", "0", "0">>
\* 05/03/0024
dYear24 ==
  <<"0", "5", "/", "0", "3", "/", "0", "0", "2", "4">>
\* 23:59:59
tLastSecond ==
  <<"2", "3", ":", "5", "9", ":", "5", "9">>
\* 7
tHourOnly ==
  <<"7">>
\* 12::30
tEmptyMinute ==
  <<"1", "2", ":", ":", "3", "0">>

TimestampDates == {dValid, dLeapDay, dCenturyEnd, dYear100, dYear24, dOverflow}
TimestampTimes ==
  {<<>>, tFull, tHourMinute, tLastSecond, tHourOnly, tEmptyMinute, tOverflow, tLetters}

TimestampDocuments ==
  {JoinWith(<<HeaderOf(fmt), GeneratedRow(fmt, fLoja, mLava, aPlain, d, t, 0)>>, <<"\n">>) :
     fmt \in {SELF_SERVICE, ATTENDANT}, d \in TimestampDates, t \in TimestampTimes}

InitTimestamp ==
  /\ csvText \in TimestampDocuments \cup ShortDocuments
  /\ pc = "start"
  /\ returned = <<>>
  /\ NoLocals
  /\ AppMounted

SpecTimestamp == InitTimestamp /\ [][Next]_vars

(***************************************************************************)
(* parseCSV on documents that grow by one rejected row inserted into the   *)
(* data region: the document is parsed, the row is inserted, and the new   *)
(* document is parsed again; returned holds the results of both calls.     *)
(***************************************************************************)

\* The number of insertions in a run
MaxInserts == 1

\* A self-service row with the date 1/1/2024
lnRowBadDateA == GeneratedRow(SELF_SERVICE, fLoja, mLava, aPlain, dShort, tFull, 0)
\* An attendant row with the date 1/1/2024 and the first column " Loja 9 "
lnRowBadDateB == GeneratedRow(ATTENDANT, fLojaQuoted, mSeca, aPlain, dShort, tFull, 0)
\* An attendant row of 13 fields
lnRowShortB == GeneratedRow(ATTENDANT, fLojaQuoted, mSeca, aPlain, dValid, tFull, -1)

\* Rows that fail the column-count or the date-pattern check of either
\* format, a period line and a repeated header row among them
RejectedRows ==
  {lnShort, lnRowBadDateA, lnRowBadDateB, lnRowShortB, lnRowNoSlash, lnPeriod, lnHeaderA}

InsertDocuments ==
  {JoinWith(d, <<"\n">>) :
     d \in {<<lnHeaderA, lnRowA>>,
            <<lnOperator, lnHeaderA, lnShort>>,
            <<lnOperator, lnHeaderA, lnRowA, lnRowA>>,
            <<lnHeaderB, lnRowB>>,
            <<lnHeaderB, lnTotal, lnRowB>>,
            <<lnTitle, lnRowA>>,
            <<lnRowA>>}}
  \cup {GappedDocument(<<lnHeaderA>>, OperatorScanLimit - 2, <<lnOperator, lnRowA>>)}

\* The document with the row r inserted as line index p
InsertedAt(ls, p, r) == SubSeq(ls, 1, p) \o <<r>> \o SubSeq(ls, p + 1, Len(ls))

\* The places of an insertion: the first line of the data region and the end
\* of the document
InsertPositions(ls, hdr) == {hdr + 1, Len(ls)}

InitInsert ==
  /\ csvText \in InsertDocuments
  /\ pc = "start"
  /\ returned = <<>>
  /\ NoLocals
  /\ AppMounted

\* A rejected row is inserted into the data region of the document that was
\* parsed, and the caller calls parseCSV on the new text.
InsertRejectedRow ==
  /\ pc = "done"
  /\ Len(returned) <= MaxInserts
  /\ \E r \in RejectedRows, p \in InsertPositions(lines, headerIndex) :
       csvText' = JoinWith(InsertedAt(lines, p, r), <<"\n">>)
  /\ pc' = "start"
  /\ UNCHANGED <<lines, format, period, unitName, headerIndex, i, transactions,
                 warnings, returned>>
  /\ UNCHANGED appVars

NextInsert == Next \/ InsertRejectedRow

SpecInsert == InitInsert /\ [][NextInsert]_vars

(***************************************************************************)
(* Properties                                                              *)
(***************************************************************************)

\* Two digits, "/", two digits, "/", four digits.
IsStrictDate(s) ==
  LET p == SplitChar(s, "/")
      digits(x, n) == Len(x) = n /\ \A k \in 1..n : x[k] \in DigitSet
  IN Len(p) = 3 /\ digits(p[1], 2) /\ digits(p[2], 2) /\ digits(p[3], 4)

\* The fields of the line at index k, and the positions the specification
\* gives for each format.
ColsAt(k) == splitCsvLine(Trim(At(lines, k)))
ClaimedMinCols == IF format = SELF_SERVICE THEN 12 ELSE 14
ClaimedDateCol == IF format = SELF_SERVICE THEN 10 ELSE 12
ClaimedAmountCol == IF format = SELF_SERVICE THEN 9 ELSE 8
ClaimedMachineCol == IF format = SELF_SERVICE THEN 6 ELSE 4
DateFieldAt(k) == StripField(ColsAt(k), ClaimedDateCol)
\* The line indices of the data region
DataRows == (headerIndex + 1)..(Len(lines) - 1)
\* The result of the call that has just returned
Result == returned[Len(returned)].result

\* The step appends exactly one transaction.
PushesOne ==
  /\ Len(transactions') = Len(transactions) + 1
  /\ SubSeq(transactions', 1, Len(transactions)) = transactions

\* C1: every transaction of the list has a rawDate of the shape DD/MM/YYYY,
\* and a row is appended to the list only when its quote-stripped, trimmed
\* date field has that shape.
C1_RawDateShape ==
  /\ [](\A k \in 1..Len(transactions) : IsStrictDate(transactions[k].rawDate))
  /\ [][AtRow /\ transactions' # transactions => IsStrictDate(DateFieldAt(i))]_vars

\* C1 witness: a call returned a transaction from a document that also has,
\* in its data region, a row with enough columns and an ill-shaped date.
C1_Witness ==
  /\ pc = "done"
  /\ transactions # <<>>
  /\ \E k \in DataRows :
       /\ Len(ColsAt(k)) >= ClaimedMinCols
       /\ Truthy(DateFieldAt(k))
       /\ ~IsStrictDate(DateFieldAt(k))

IsParseResult(r) ==
  /\ DOMAIN r = {"metadata", "transactions"}
  /\ DOMAIN r.metadata = {"unitName", "period", "reportType"}
  /\ r.metadata.reportType \in {SELF_SERVICE, ATTENDANT}
  /\ DOMAIN r.transactions = 1..Len(r.transactions)

HasOddQuotes(l) == Len(SelectSeq(l, LAMBDA c : c = "\"")) % 2 = 1

\* C2: parseCSV never raises: no state has a thrown error, the value a call
\* returns is a ParseResult, and the list holds at most one transaction for
\* each line the row loop has passed.
C2_NeverRaises ==
  /\ pc # "raised"
  /\ pc = "done" => IsParseResult(Result)
  /\ pc \in {"loop", "done"} => Len(transactions) <= i - (headerIndex + 1)

\* C2 witness: a call returned on a document of a known format whose data
\* region has a row with an unbalanced quote and a row with too few fields.
C2_Witness ==
  /\ pc = "done"
  /\ format # UNKNOWN
  /\ \E k \in DataRows : HasOddQuotes(At(lines, k))
  /\ \E k \in DataRows : ~isLineEmpty(At(lines, k)) /\ Len(ColsAt(k)) < ClaimedMinCols

NoSignatureLine ==
  \A k \in 1..Len(lines) :
    /\ ~(Includes(lines[k], sProdutos) /\ Includes(lines[k], sTotalVenda)
         /\ Includes(lines[k], sData))
    /\ ~(Includes(lines[k], sNomeTerminal) /\ Includes(lines[k], sVendaRS)
         /\ Includes(lines[k], sData))

\* C3: when no line of the document matches a format signature, no row is
\* mapped (the list stays empty and the unit name stays the sentinel) and
\* the call returns an empty list, the sentinel unit name and the report
\* type SELF_SERVICE.
C3_NoSignature ==
  /\ pc \in {"loop", "done"} /\ NoSignatureLine =>
       transactions = <<>> /\ unitName = sUnidadeDesconhecida /\ format = UNKNOWN
  /\ pc = "done" /\ NoSignatureLine =>
       /\ Result.transactions = <<>>
       /\ Result.metadata.unitName = sUnidadeDesconhecida
       /\ Result.metadata.reportType = SELF_SERVICE

\* C3 witness: a call returned on a document without a signature line that
\* has a row either mapping would accept and an operator line.
C3_Witness ==
  /\ pc = "done"
  /\ NoSignatureLine
  /\ \E k \in 0..(Len(lines) - 1) :
       /\ Len(ColsAt(k)) >= 14
       /\ IsStrictDate(StripField(ColsAt(k), 10))
       /\ IsStrictDate(StripField(ColsAt(k), 12))
       /\ ~StartsWith(At(lines, k), sTotal)
  /\ \E k \in 0..(Len(lines) - 1) : StartsWith(At(lines, k), sOperador)

\* The weekday (0 = Sunday) of the date written DD/MM/YYYY.
WeekdayOfDate(s) ==
  LET p == SplitChar(s, "/")
  IN Num((DaysFromCivil(DigitsValue(p[3]), DigitsValue(p[2]), DigitsValue(p[1])) + 4) % 7, 0)

\* The document is a format's header line followed by rows that have at
\* least the format's minimum field count and a DD/MM/YYYY date column.
IsHeaderAndValidRows ==
  /\ Len(lines) >= 2
  /\ \/ lines[1] = lnHeaderA /\ format = SELF_SERVICE
     \/ lines[1] = lnHeaderB /\ format = ATTENDANT
  /\ \A k \in 1..(Len(lines) - 1) :
       Len(ColsAt(k)) >= ClaimedMinCols /\ IsStrictDate(DateFieldAt(k))

\* C4: a header line followed by N valid rows gives exactly N transactions,
\* the k-th with the amount parseCurrency gives for the k-th row's amount
\* field, the cycle type of its machine label and the weekday of its date.
C4_RoundTrip ==
  pc = "done" /\ IsHeaderAndValidRows =>
    /\ Len(Result.transactions) = Len(lines) - 1
    /\ \A k \in 1..(Len(lines) - 1) :
         LET t == Result.transactions[k]
         IN /\ t.amount = parseCurrency(StripField(ColsAt(k), ClaimedAmountCol))
            /\ t.type = determineCycleType(StripField(ColsAt(k), ClaimedMachineCol))
            /\ t.dayOfWeek = WeekdayOfDate(DateFieldAt(k))

\* The fields of the current line, untrimmed
RawCols == splitCsvLine(At(lines, i))

\* C5 as stated: a row with fewer fields than the format's minimum gives no
\* transaction, and a row with exactly the minimum and a valid date gives
\* exactly one.
C5_Original ==
  [][AtRow /\ format # UNKNOWN =>
       /\ Len(RawCols) < ClaimedMinCols => transactions' = transactions
       /\ Len(RawCols) = ClaimedMinCols /\ IsStrictDate(DateFieldAt(i)) => PushesOne]_vars

\* C5 amended: a row with fewer fields than the format's minimum (12 for
\* SELF_SERVICE, 14 for ATTENDANT) gives no transaction, and a row with
\* exactly the minimum and a valid date gives exactly one unless its trimmed
\* text starts with "Total".
C5_RejectionBoundary ==
  [][AtRow /\ format # UNKNOWN =>
       /\ Len(RawCols) < ClaimedMinCols => transactions' = transactions
       /\ (/\ Len(RawCols) = ClaimedMinCols
           /\ IsStrictDate(DateFieldAt(i))
           /\ ~StartsWith(Trim(At(lines, i)), sTotal)) => PushesOne]_vars

\* C5 witness: a call returned one transaction from a document whose data
\* region has a row one field short of the minimum and a row with exactly
\* the minimum and a valid date.
C5_Witness ==
  /\ pc = "done"
  /\ format # UNKNOWN
  /\ Len(transactions) = 1
  /\ \E k \in DataRows : Len(ColsAt(k)) = ClaimedMinCols - 1 /\ IsStrictDate(DateFieldAt(k))
  /\ \E k \in DataRows :
       /\ Len(ColsAt(k)) = ClaimedMinCols
       /\ IsStrictDate(DateFieldAt(k))
       /\ ~StartsWith(Trim(At(lines, k)), sTotal)

\* C7: every transaction has a numeric amount greater than or equal to zero.
C7_AmountNonNegative ==
  \A k \in 1..Len(transactions) :
    transactions[k].amount.k = "num" /\ transactions[k].amount.m >= 0

\* C8: every transaction has a dayOfWeek that is an integer in 0..6.
C8_DayOfWeekRange ==
  \A k \in 1..Len(transactions) :
    /\ transactions[k].dayOfWeek.k = "num"
    /\ transactions[k].dayOfWeek.e = 0
    /\ transactions[k].dayOfWeek.m \in 0..6

\* C9: no two transactions of one call have the same id.
C9_UniqueIds ==
  \A a, b \in 1..Len(transactions) :
    a # b => transactions[a].id # transactions[b].id

\* C9 witness: a call returned two transactions that agree on the raw date,
\* the raw time and the machine label.
C9_Witness ==
  /\ pc = "done"
  /\ \E a, b \in 1..Len(Result.transactions) :
       /\ a # b
       /\ Result.transactions[a].rawDate = Result.transactions[b].rawDate
       /\ Result.transactions[a].rawTime = Result.transactions[b].rawTime
       /\ Result.transactions[a].machine = Result.transactions[b].machine

\* C6 as stated: after any number of unrelated lines is inserted before the
\* signature line, the format detected is the one detected before.
C6_Original ==
  [][pc = "detect" /\ format # UNKNOWN => format' = format]_vars

\* C6 amended: after unrelated lines are inserted before the signature
\* line, the format detected is the one detected before, provided the
\* signature line is still among the first 5000 lines.
C6_InsertionKeepsFormat ==
  [][(/\ pc = "detect"
      /\ format # UNKNOWN
      /\ FirstSignatureIndex(lines) < 5000) => format' = format]_vars

\* C6 witness: the format was detected again, and found, after an insertion
\* that moved the signature line to the last index the scan visits.
C6_Witness ==
  /\ pc = "detected"
  /\ format # UNKNOWN
  /\ Len(lines) > MaxLines
  /\ FirstSignatureIndex(lines) = 4999

\* C10: calls on the same text return equal results, whatever calls were
\* made in between.
C10_Deterministic ==
  \A a, b \in 1..Len(returned) :
    returned[a].text = returned[b].text => returned[a].result = returned[b].result

\* C10 witness: three calls returned, the first and the third on the same
\* text, the second on another text; each returned transactions, and the
\* second a different unit name.
C10_Witness ==
  /\ Len(returned) = 3
  /\ returned[1].text = returned[3].text
  /\ returned[2].text # returned[1].text
  /\ returned[1].result.transactions # <<>>
  /\ returned[2].result.transactions # <<>>
  /\ returned[2].result.metadata.unitName # returned[1].result.metadata.unitName
  /\ returned[1].result.metadata.unitName # sUnidadeDesconhecida

\* C11: parseCurrency strips quotes, the "R$" symbol and surrounding white
\* space; with both "." and "," it removes every "." and reads "," as the
\* decimal point, with only "," it reads it as the decimal point, with only
\* "." it leaves the text as it is.  So "R$ 1.234,56" gives 1234.56, and
\* "15,9" and "15.9" both give 15.9.
C11_CurrencyNotation ==
  pc = "applied" =>
    \A wrap \in CurrencyWraps, pad \in CurrencyPads, symbol \in CurrencySymbols,
       b \in CurrencyBodies :
      csvText = CurrencyText(wrap, pad, symbol, b.text) => Result = b.value

\* C11 witness: the call on "R$ 1.234,56" returned 1234.56.
C11_Witness ==
  /\ pc = "applied"
  /\ csvText = <<"R", "$", " ">> \o cThousands
  /\ Result = Num(123456, 2)

\* The amount field of the line at index k, quote-stripped and trimmed
AmountFieldAt(k) == StripField(ColsAt(k), ClaimedAmountCol)

\* A text that no cleaning turns into a number: it has no digit and does not
\* spell Infinity.
HasNoNumber(f) ==
  /\ \A k \in 1..Len(f) : f[k] \notin DigitSet
  /\ ~Includes(f, <<"I", "n", "f", "i", "n", "i", "t", "y">>)

\* The current row passes every gate that does not look at the amount: it is
\* not empty, does not start with "Total", has the format's minimum field
\* count and a DD/MM/YYYY date.
IsAcceptableRow ==
  /\ AtRow
  /\ format # UNKNOWN
  /\ ~isLineEmpty(At(lines, i))
  /\ ~StartsWith(Trim(At(lines, i)), sTotal)
  /\ Len(ColsAt(i)) >= ClaimedMinCols
  /\ IsStrictDate(DateFieldAt(i))

\* C12: no call raises, and a row whose amount field is empty or has no
\* number in it is still accepted: it gives exactly one transaction, with
\* amount 0.
C12_UnparsableAmountIsZero ==
  /\ [](pc # "raised")
  /\ [][IsAcceptableRow /\ HasNoNumber(AmountFieldAt(i)) =>
          PushesOne /\ transactions'[Len(transactions')].amount = Zero]_vars

\* C12 witness: a call returned one transaction with amount 0 from a row
\* whose amount field is "garbage".
C12_Witness ==
  /\ pc = "done"
  /\ Len(transactions) = 1
  /\ transactions[1].amount = Zero
  /\ \E k \in DataRows : AmountFieldAt(k) = aGarbage

ClaimedTimeCol == IF format = SELF_SERVICE THEN 11 ELSE 13
TimeFieldAt(k) == StripField(ColsAt(k), ClaimedTimeCol)

\* The current row has enough fields for the detected format.
IsFullRow == AtRow /\ format # UNKNOWN /\ Len(RawCols) >= ClaimedMinCols

\* The timestamp of the transaction the step appends
PushedDate == transactions'[Len(transactions')].date

\* 31/02/2024 carries over to 2 March 2024 (day 19784 from 1970-01-01), and
\* a time of 24:00:00 carries one day further.
OverflowTimestamp ==
  /\ TimeFieldAt(i) = <<>> =>
       PushedDate = [valid |-> TRUE, day |-> DaysFromCivil(2024, 3, 2), sec |-> 0]
  /\ TimeFieldAt(i) = tFull =>
       PushedDate = [valid |-> TRUE, day |-> DaysFromCivil(2024, 3, 2),
                     sec |-> 10 * 3600 + 30 * 60]
  /\ TimeFieldAt(i) = tHourMinute =>
       PushedDate = [valid |-> TRUE, day |-> DaysFromCivil(2024, 3, 2),
                     sec |-> 12 * 3600 + 30 * 60]
  /\ TimeFieldAt(i) = tOverflow =>
       PushedDate = [valid |-> TRUE, day |-> DaysFromCivil(2024, 3, 3), sec |-> 0]

C13_CycleTypePrecedence ==
  pc = "applied" =>
    \A prefix \in LabelPrefixes, w1 \in LabelWords, infix \in LabelInfixes,
       w2 \in LabelWords, suffix \in LabelSuffixes :
      csvText = LabelText(prefix, w1, infix, w2, suffix) =>
        Result = IF "lava" \in {w1.marker, w2.marker} THEN "LAVAR"
                 ELSE IF "seca" \in {w1.marker, w2.marker} THEN "SECAR"
                 ELSE "OUTRO"

\* C13 witness: the call on "SECA E LAVA - 02" returned WASH.
C13_Witness ==
  /\ pc = "applied"
  /\ csvText = wSecaUpper \o <<" ", "E", " ">> \o wLavaUpper \o <<" ", "-", " ", "0", "2">>
  /\ Result = "LAVAR"

ClaimedPaymentCol == IF format = SELF_SERVICE THEN 4 ELSE 5

\* The field without the white space and the pair of quotes around it, the
\* characters in between untouched.
RECURSIVE Unwrapped(_)
Unwrapped(f) ==
  LET t == Trim(f)
  IN IF Len(t) >= 2 /\ t[1] \in {"'", "\""} /\ t[Len(t)] = t[1]
     THEN Unwrapped(SubSeq(t, 2, Len(t) - 1))
     ELSE t

\* C15: the transaction of an accepted row carries, as productName, machine,
\* paymentMethod, rawDate and rawTime, the row's machine, payment, date and
\* time fields with only the surrounding quotes and white space removed; a
\* quote or apostrophe inside a field is kept.
C15_RawFieldsUnwrapped ==
  [][AtRow /\ PushesOne =>
       LET t == transactions'[Len(transactions')]
       IN /\ t.productName = Unwrapped(At(ColsAt(i), ClaimedMachineCol))
          /\ t.machine = Unwrapped(At(ColsAt(i), ClaimedMachineCol))
          /\ t.paymentMethod = Unwrapped(At(ColsAt(i), ClaimedPaymentCol))
          /\ t.rawDate = Unwrapped(At(ColsAt(i), ClaimedDateCol))
          /\ t.rawTime = Unwrapped(At(ColsAt(i), ClaimedTimeCol))]_vars

\* The lines a scan over the first 5000 lines visits that contain the text.
ScannedWith(text) == {k \in 1..Min(Len(lines), 5000) : Includes(lines[k], text)}

\* The period the first line with "Vendas de" among the first 5000 gives:
\* its first comma-separated field with the marker, without the marker,
\* with " ate " rewritten to " - ", trimmed; the sentinel when there is no
\* such line.
ClaimedPeriod ==
  IF ScannedWith(sVendasDe) = {} THEN sPeriodoNaoIdentificado
  ELSE LET parts == SplitComma(lines[SetMin(ScannedWith(sVendasDe))])
           field == parts[CHOOSE p \in 1..Len(parts) :
                            /\ Includes(parts[p], sVendasDe)
                            /\ \A q \in 1..(p - 1) : ~Includes(parts[q], sVendasDe)]
           at == IndexOf(field, sVendasDe)
           rest == SubSeq(field, 1, at) \o SubSeq(field, at + Len(sVendasDe) + 1, Len(field))
       IN Trim(ReplaceFirst(rest, <<" ", "a", "t", "e", " ">>, <<" ", "-", " ">>))

\* C16: the period is computed from the first line, among the first 5000,
\* that contains "Vendas de": the field with the marker loses the marker,
\* has " ate " rewritten to " - " and is trimmed.  Without such a line the
\* period is the sentinel.  The detected format plays no part.
C16_PeriodFromFirstMarkerLine ==
  pc = "extracted" => period = ClaimedPeriod

\* C16 witness: the period is that of the line at index 4999, the last one
\* the scan visits; the line at index 5000 carries another period; the
\* format is unknown.
C16_Witness ==
  /\ pc = "extracted"
  /\ Len(lines) = 5001
  /\ lines[5000] = lnPeriodApril
  /\ lines[5001] = lnPeriod
  /\ period = <<"0", "1", "/", "0", "4", "/", "2", "0", "2", "4", " ", "-", " ",
                "3", "0", "/", "0", "4", "/", "2", "0", "2", "4">>
  /\ format = UNKNOWN

\* The line has the three texts of the self-service signature, or of the
\* attendant signature.
HasSignatureA(l) ==
  Includes(l, sProdutos) /\ Includes(l, sTotalVenda) /\ Includes(l, sData)
HasSignatureB(l) ==
  Includes(l, sNomeTerminal) /\ Includes(l, sVendaRS) /\ Includes(l, sData)

\* The earliest line, among the first 5000, that matches a signature
EarliestSignature ==
  {k \in 1..Min(Len(lines), 5000) :
     /\ HasSignatureA(lines[k]) \/ HasSignatureB(lines[k])
     /\ \A j \in 1..(k - 1) : ~HasSignatureA(lines[j]) /\ ~HasSignatureB(lines[j])}

\* C20: the format detected is that of the earliest line, among the first
\* 5000, that matches a signature: SELF_SERVICE when the line matches the
\* self-service signature (also when it matches both), ATTENDANT when it
\* matches only the attendant one, and UNKNOWN when no line among the first
\* 5000 matches.
C20_EarliestSignatureWins ==
  pc \in {"detected", "extracted"} =>
    /\ EarliestSignature = {} => format = "UNKNOWN"
    /\ \A k \in EarliestSignature :
         format = IF HasSignatureA(lines[k]) THEN "SELF_SERVICE" ELSE "ATTENDANT"

\* C20 witness: SELF_SERVICE is detected from a line that matches both
\* signatures at index 4999, with an attendant header at index 5000.
C20_Witness ==
  /\ pc = "detected"
  /\ Len(lines) = 5001
  /\ lines[5000] = lnHeaderBoth
  /\ lines[5001] = lnHeaderB
  /\ format = SELF_SERVICE

\* The lines, among the first 50, that begin with "Operador:"
OperatorLinesScanned ==
  {k \in 0..(Min(Len(lines), 50) - 1) : StartsWith(At(lines, k), sOperador)}
\* Those of them that have a non-empty second field
NamedOperatorLines ==
  {k \in OperatorLinesScanned : Truthy(At(splitCsvLine(At(lines, k)), 1))}
\* The second field of the line at index k, quote-stripped and trimmed
OperatorNameAt(k) == StripField(splitCsvLine(At(lines, k)), 1)

\* A row of the data region that passes the pre-filters and has at least 12
\* fields
HasFullRowA ==
  \E k \in DataRows :
    /\ ~isLineEmpty(At(lines, k))
    /\ ~StartsWith(Trim(At(lines, k)), sTotal)
    /\ Len(ColsAt(k)) >= 12

\* C17 as stated: in a SELF_SERVICE document with a line beginning with
\* "Operador:" among its first 50 lines, the unit name returned is the
\* second field of the first such line; lines from index 50 on are ignored.
C17_Original ==
  pc = "done" /\ format = SELF_SERVICE =>
    /\ OperatorLinesScanned # {} =>
         Result.metadata.unitName = OperatorNameAt(SetMin(OperatorLinesScanned))
    /\ OperatorLinesScanned = {} =>
         Result.metadata.unitName = sUnidadeDesconhecida

\* C17 amended: in a SELF_SERVICE document that has a row with at least 12
\* fields past the pre-filters, the unit name returned is the second field
\* (quotes stripped, trimmed) of the first line, among the first 50, that
\* begins with "Operador:" and has a non-empty second field; lines from
\* index 50 on are ignored; without such a row or such a line the unit name
\* is the sentinel.
C17_UnitNameFromOperatorLine ==
  pc = "done" /\ format = SELF_SERVICE =>
    /\ HasFullRowA /\ NamedOperatorLines # {} =>
         Result.metadata.unitName = OperatorNameAt(SetMin(NamedOperatorLines))
    /\ ~HasFullRowA \/ NamedOperatorLines = {} =>
         Result.metadata.unitName = sUnidadeDesconhecida

\* C17 witness: a call returned the name of the operator line at index 49,
\* the last one the scan visits; the line at index 50 has another name.
C17_Witness ==
  /\ pc = "done"
  /\ format = SELF_SERVICE
  /\ Len(lines) > 51
  /\ lines[50] = lnOperator
  /\ lines[51] = lnOperatorOther
  /\ Result.metadata.unitName = <<"L", "o", "j", "a", " ", "2">>

\* The rows of the data region that pass the pre-filters, have at least 14
\* fields and a "/" in field 12
DataRowsB ==
  {k \in DataRows :
     /\ ~isLineEmpty(At(lines, k))
     /\ ~StartsWith(Trim(At(lines, k)), sTotal)
     /\ Len(ColsAt(k)) >= 14
     /\ Includes(At(ColsAt(k), 12), <<"/">>)}
\* Those of them whose first column, quote-stripped and trimmed, is neither
\* empty nor the header label
NamedRowsB ==
  {k \in DataRowsB : StripField(ColsAt(k), 0) \notin {<<>>, sCliente}}

\* The current row is rejected for having fewer than 14 fields or no "/" in
\* field 12.
IsRejectedRowB ==
  /\ AtRow
  /\ format = ATTENDANT
  /\ \/ Len(ColsAt(i)) < 14
     \/ ~Includes(At(ColsAt(i), 12), <<"/">>)

\* C18 as stated: in an ATTENDANT document the unit name returned is the
\* first column of the first data row and is never "Cliente"; a row with
\* fewer than 14 fields or without "/" in field 12 leaves the unit name and
\* the list as they are.
C18_Original ==
  /\ [](pc = "done" /\ format = ATTENDANT =>
         /\ DataRowsB # {} =>
              Result.metadata.unitName = StripField(ColsAt(SetMin(DataRowsB)), 0)
         /\ Result.metadata.unitName # sCliente)
  /\ [][IsRejectedRowB => unitName' = unitName /\ transactions' = transactions]_vars

\* C18 amended: in an ATTENDANT document the unit name returned is the
\* first column (quotes stripped, trimmed) of the first data row whose
\* first column is neither empty nor "Cliente", and the sentinel when there
\* is no such row; it is never "Cliente"; a row with fewer than 14 fields or
\* without "/" in field 12 leaves the unit name and the list as they are.
C18_UnitNameFromFirstNamedRow ==
  /\ [](pc = "done" /\ format = ATTENDANT =>
         /\ NamedRowsB # {} =>
              Result.metadata.unitName = StripField(ColsAt(SetMin(NamedRowsB)), 0)
         /\ NamedRowsB = {} => Result.metadata.unitName = sUnidadeDesconhecida
         /\ Result.metadata.unitName # sCliente)
  /\ [][IsRejectedRowB => unitName' = unitName /\ transactions' = transactions]_vars

\* C18 witness: a call returned the unit name of the second data row: the
\* first one has "Cliente" in its first column, a "/" in field 12 and an
\* ill-shaped date.
C18_Witness ==
  /\ pc = "done"
  /\ format = ATTENDANT
  /\ DataRowsB # {}
  /\ StripField(ColsAt(SetMin(DataRowsB)), 0) = sCliente
  /\ Result.metadata.unitName = fLoja
  /\ Len(Result.transactions) = 1

\* The result of the call of parseCSV on the text, among the calls that
\* returned
ParsedText(text) ==
  returned[CHOOSE k \in 1..Len(returned) : returned[k].text = text].result

\* handleProcessFiles has run to its end and every file it was given was
\* readable.
UploadSettled ==
  /\ appPc = "idle"
  /\ uploads > 0
  /\ \A slot \in {"selfService", "attendant"} :
       files[slot] # Null => files[slot][1].readable

\* What the slot holds after an upload of the file: the parse of the file
\* when it has a transaction, null otherwise.
SlotDataOf(file) ==
  IF file = Null THEN Null
  ELSE IF ParsedText(file[1].text).transactions # <<>>
       THEN <<ParsedText(file[1].text)>>
       ELSE Null

\* C19: when handleProcessFiles has run to its end on readable files, each
\* slot holds the parse of its file if the parse has a transaction,
\* whatever report type was detected, and no error is set; a report type
\* that is not the slot's only adds a warning to the log.
C19_MismatchNeverBlocks ==
  /\ UploadSettled /\ hasData =>
       /\ selfServiceData = SlotDataOf(files.selfService)
       /\ attendantData = SlotDataOf(files.attendant)
       /\ error = Null
       /\ ~loading
       /\ (\E k \in 1..Len(consoleLog) : consoleLog[k] = mAttendantInSelfService)
            <=> (/\ selfServiceData # Null
                 /\ selfServiceData[1].metadata.reportType = "ATTENDANT")
       /\ (\E k \in 1..Len(consoleLog) : consoleLog[k] = mSelfServiceInAttendant)
            <=> (/\ attendantData # Null
                 /\ attendantData[1].metadata.reportType = "SELF_SERVICE")
  /\ error # Null => \E slot \in {"selfService", "attendant"} :
                       files[slot] # Null /\ ~files[slot][1].readable

\* C19 witness: an upload ended with the attendant report stored in the
\* self-service slot and the self-service report in the attendant slot, two
\* warnings and no error.
C19_Witness ==
  /\ UploadSettled
  /\ files.selfService = <<[text |-> docAttendant, readable |-> TRUE]>>
  /\ files.attendant = <<[text |-> docSelfService, readable |-> TRUE]>>
  /\ selfServiceData # Null
  /\ selfServiceData[1].metadata.reportType = ATTENDANT
  /\ attendantData # Null
  /\ attendantData[1].metadata.reportType = SELF_SERVICE
  /\ consoleLog = <<mAttendantInSelfService, mSelfServiceInAttendant>>
  /\ error = Null
  /\ activeTab = "FINANCIAL"

\* The first line, among the first 5000, with both "Data" and "Hora"; -1
\* when there is none.
ClaimedHeaderIndex(ls) ==
  LET hits == {k \in 0..(Len(ls) - 1) :
                 k < 5000 /\ Includes(At(ls, k), sData) /\ Includes(At(ls, k), sHora)}
  IN IF hits = {} THEN -1 ELSE CHOOSE k \in hits : \A j \in hits : k <= j

\* C21: the header row is the first line, among the first 5000, with both
\* "Data" and "Hora", and the row loop starts at the line after it, so a step
\* that appends a transaction is at a line after the header index; when
\* there is no such line the loop starts at line 0, nothing is raised, and
\* the warning is logged only if a format was detected.
C21_HeaderRow ==
  [][/\ pc' # "raised"
     /\ pc = "start" /\ pc' = "loop" =>
          /\ headerIndex' = ClaimedHeaderIndex(lines')
          /\ i' = headerIndex' + 1
          /\ headerIndex' = -1 => i' = 0
          /\ warnings' # <<>> => headerIndex' = -1 /\ format' # UNKNOWN
     /\ AtRow /\ transactions' # transactions => i > headerIndex]_vars

\* C21 witness: a call returned transactions from a document of more than
\* 5000 lines whose format was detected and whose header row, at line 5000,
\* was not found, with the warning logged.
C21_Witness ==
  /\ pc = "done"
  /\ Len(lines) > 5000
  /\ format = SELF_SERVICE
  /\ headerIndex = -1
  /\ warnings = <<wHeaderNotFound>>
  /\ Len(transactions) = 2

\* The line has only commas and white space (none at all included).
IsBlankRow(l) == \A k \in 1..Len(l) : l[k] \in WhiteSpace \cup {","}
\* The line's trimmed text starts with "Total".
IsTotalRow(l) ==
  Len(Trim(l)) >= 5 /\ SubSeq(Trim(l), 1, 5) = <<"T", "o", "t", "a", "l">>

\* C22: the step of the row loop at a line that has only commas and white
\* space, or whose trimmed text starts with "Total", appends no transaction
\* and leaves unitName as it is, whatever the line's field count and date
\* field.
C22_PrefilteredRows ==
  [][AtRow /\ (IsBlankRow(At(lines, i)) \/ IsTotalRow(At(lines, i)))
       => transactions' = transactions /\ unitName' = unitName]_vars

\* C22 witness: a call on an attendant document returned no transaction and
\* the sentinel unit name although its data region has a "Total" row with 14
\* fields and a DD/MM/YYYY date in field 12, next to a row of bare commas.
C22_Witness ==
  /\ pc = "done"
  /\ format = ATTENDANT
  /\ transactions = <<>>
  /\ unitName = sUnidadeDesconhecida
  /\ \E k \in DataRows : IsBlankRow(At(lines, k)) /\ At(lines, k) # <<>>
  /\ \E k \in DataRows :
       /\ IsTotalRow(At(lines, k))
       /\ Len(ColsAt(k)) >= 14
       /\ IsStrictDate(StripField(ColsAt(k), 12))

\* The number of double quotes of l before position k
QuotesBefore(l, k) == Cardinality({j \in 1..(k - 1) : l[j] = "\""})
\* The line's double quotes are balanced
HasBalancedQuotes(l) == QuotesBefore(l, Len(l) + 1) % 2 = 0
\* The commas of l outside a double-quoted span
CommasOutsideQuotes(l) ==
  {k \in 1..Len(l) : l[k] = "," /\ QuotesBefore(l, k) % 2 = 0}

\* C23: on a line whose double quotes are balanced splitCsvLine splits at
\* every comma outside a double-quoted span and at no other: the fields are
\* the texts between those commas, one more than there are such commas, and
\* a line written as fields joined by commas, a field with a comma being
\* quoted, gives back those fields at their positions.
C23_QuotedCommasKept ==
  pc = "applied" =>
    /\ HasBalancedQuotes(csvText) =>
         /\ Len(Result) = 1 + Cardinality(CommasOutsideQuotes(csvText))
         /\ \A k \in 1..Len(csvText) :
              k \in CommasOutsideQuotes(csvText)
                <=> \E p \in 1..(Len(Result) - 1) :
                      k = p + Len(JoinWith(SubSeq(Result, 1, p), <<>>))
    /\ \A fs \in FieldLists(BalancedFields) :
         csvText = JoinWith(fs, <<",">>) => Result = fs

\* C23 witness: the call on  a,"b,c",x"y,,z"w  returned three fields, the
\* third being  x"y,,z"w .
C23_Witness ==
  /\ pc = "applied"
  /\ csvText = JoinWith(<<fPlain, fQuotedComma, fQuotedInside>>, <<",">>)
  /\ Len(Result) = 3
  /\ Result[3] = fQuotedInside

\* The transaction carries the fields of cols at the given positions: the
\* machine label, the payment method, the amount, the date and the time.
TakenFrom(t, cols, machine, payment, amount, date, time) ==
  /\ t.machine = StripField(cols, machine)
  /\ t.productName = StripField(cols, machine)
  /\ t.paymentMethod = StripField(cols, payment)
  /\ t.amount = parseCurrency(StripField(cols, amount))
  /\ t.rawDate = StripField(cols, date)
  /\ t.rawTime = StripField(cols, time)

\* C24: the format is detected once, at the entry of the call, from the
\* earliest signature line, and does not change in the row loop; every
\* transaction of a SELF_SERVICE document takes its machine label from field
\* 6, payment method from field 4, amount from field 9, date from field 10
\* and time from field 11, and every transaction of an ATTENDANT document
\* from fields 4, 5, 8, 12 and 13, also after a later line with the other
\* format's signature; no row of a document of UNKNOWN format is mapped.
C24_FormatFixedPerDocument ==
  [][/\ pc = "start" /\ pc' = "loop" =>
          /\ EarliestSignature' = {} => format' = "UNKNOWN"
          /\ \A k \in EarliestSignature' :
               format' = IF HasSignatureA(lines'[k]) THEN "SELF_SERVICE"
                         ELSE "ATTENDANT"
     /\ pc = "loop" => format' = format
     /\ AtRow /\ format = "UNKNOWN" => transactions' = transactions
     /\ AtRow /\ transactions' # transactions =>
          /\ PushesOne
          /\ format = "SELF_SERVICE" =>
               TakenFrom(transactions'[Len(transactions')], ColsAt(i), 6, 4, 9, 10, 11)
          /\ format = "ATTENDANT" =>
               TakenFrom(transactions'[Len(transactions')], ColsAt(i), 4, 5, 8, 12, 13)]_vars

\* C24 witness: a call on the self-service header row, the attendant header
\* row and a row that both mappings accept returned one transaction, with
\* the machine label of field 6 and the payment method of field 4.
C24_Witness ==
  /\ pc = "done"
  /\ lines = <<lnHeaderA, lnHeaderB, lnOdd>>
  /\ format = SELF_SERVICE
  /\ Len(transactions) = 1
  /\ transactions[1].machine = mLava
  /\ transactions[1].paymentMethod = mBoth

\* The three numbers of a DD/MM/YYYY date field
DateNumber(d, k) == DigitsValue(SplitChar(d, "/")[k])

\* The k-th number of a time field: 0 when the field is empty or its k-th
\* ":"-separated component is missing or empty, -1 when the component is not
\* a number
TimeNumber(tm, k) ==
  LET parts == SplitChar(tm, ":")
  IN IF tm = <<>> \/ k > Len(parts) THEN 0
     ELSE IF parts[k] = <<>> THEN 0
     ELSE IF \A c \in 1..Len(parts[k]) : parts[k][c] \in DigitSet
          THEN DigitsValue(parts[k])
          ELSE -1

DaysInMonth(y, m) ==
  IF m \in {4, 6, 9, 11} THEN 30
  ELSE IF m # 2 THEN 31
  ELSE IF y % 4 = 0 /\ (y % 100 # 0 \/ y % 400 = 0) THEN 29
  ELSE 28

IsCalendarDate(d) ==
  /\ IsStrictDate(d)
  /\ DateNumber(d, 2) \in 1..12
  /\ DateNumber(d, 1) \in 1..DaysInMonth(DateNumber(d, 3), DateNumber(d, 2))

IsClockTime(tm) ==
  /\ TimeNumber(tm, 1) \in 0..23
  /\ TimeNumber(tm, 2) \in 0..59
  /\ TimeNumber(tm, 3) \in 0..59

\* The timestamp whose year, month, day, hour, minute and second are the
\* numbers of the date field d and of the time field tm
TimestampOf(d, tm) ==
  [valid |-> TRUE,
   day |-> DaysFromCivil(DateNumber(d, 3), DateNumber(d, 2), DateNumber(d, 1)),
   sec |-> TimeNumber(tm, 1) * 3600 + TimeNumber(tm, 2) * 60 + TimeNumber(tm, 3)]

\* C25: the timestamp of an appended transaction is at 00:00:00 when the
\* row's time field is empty, and for a calendar-valid date and an in-range
\* time, a missing or empty component counting as 0, its year, month, day,
\* hour, minute and second are the numbers of the date and time fields.
C25_TimestampFields ==
  [][AtRow /\ PushesOne =>
       /\ TimeFieldAt(i) = <<>> => PushedDate.valid /\ PushedDate.sec = 0
       /\ IsCalendarDate(DateFieldAt(i)) /\ IsClockTime(TimeFieldAt(i)) =>
            PushedDate = TimestampOf(DateFieldAt(i), TimeFieldAt(i))]_vars

\* The same for the years from 100 on.
TimestampFieldsFromYear100 ==
  [][AtRow /\ PushesOne =>
       /\ TimeFieldAt(i) = <<>> => PushedDate.valid /\ PushedDate.sec = 0
       /\ IsCalendarDate(DateFieldAt(i)) /\ IsClockTime(TimeFieldAt(i))
          /\ DateNumber(DateFieldAt(i), 3) >= 100 =>
            PushedDate = TimestampOf(DateFieldAt(i), TimeFieldAt(i))]_vars

\* The line index at the head of a transaction's id
IdIndex(t) == DigitsValue(DigitPrefix(t.id))
\* The transaction with the line index of its id moved by one when the line
\* is at or after p
ShiftedFrom(t, p) ==
  [t EXCEPT !.id = NatToString(IF IdIndex(t) >= p THEN IdIndex(t) + 1 ELSE IdIndex(t))
                   \o SubSeq(t.id, Len(DigitPrefix(t.id)) + 1, Len(t.id))]

\* The row fails the column-count or the date-pattern check of the format.
IsRejectedRow(r, fmt) ==
  LET cols == splitCsvLine(Trim(r))
  IN IF fmt = "SELF_SERVICE"
     THEN Len(cols) < 12 \/ ~IsStrictDate(StripField(cols, 10))
     ELSE Len(cols) < 14 \/ ~IsStrictDate(StripField(cols, 12))

\* The row never reaches the date-pattern check of the format.
IsUnmappedRow(r, fmt) ==
  LET cols == splitCsvLine(Trim(r))
  IN IF fmt = "SELF_SERVICE" THEN Len(cols) < 12
     ELSE Len(cols) < 14 \/ ~Includes(cols[13], <<"/">>)

\* The row carries a text one of the scans looks for.
HasScanMarker(r) ==
  \/ HasSignatureA(r) \/ HasSignatureB(r)
  \/ Includes(r, sVendasDe)
  \/ Includes(r, sData) /\ Includes(r, sHora)
  \/ StartsWith(r, sOperador)

\* The results a and b of parsing a document and the document with a row
\* inserted as line p: the same rows give transactions, equal but for the
\* line index of the id.
SameTransactions(a, b, p) ==
  b.transactions = [k \in 1..Len(a.transactions) |-> ShiftedFrom(a.transactions[k], p)]

\* The document ls2 is the document ls with the row r inserted as line p of
\* the data region.
IsInsertion(ls, ls2, p, r) ==
  /\ Len(ls2) = Len(ls) + 1
  /\ p >= ClaimedHeaderIndex(ls) + 1
  /\ ls2 = InsertedAt(ls, p, r)

\* The n-th call and the next one
DocumentOf(n) == SplitLines(returned[n].text)
ResultOf(n) == returned[n].result

IsAcceptedLine(k) ==
  /\ format # UNKNOWN
  /\ ~IsBlankRow(At(lines, k))
  /\ ~IsTotalRow(At(lines, k))
  /\ Len(ColsAt(k)) >= ClaimedMinCols
  /\ IsStrictDate(DateFieldAt(k))

\* C27: each line gives at most one transaction, whose id carries the line's
\* index; the list is in ascending line order, the line indices of the ids
\* strictly increasing and all greater than the header index; and the row
\* loop runs to the end of the document, past line 5000: the transactions
\* returned are those of the accepted rows after the header index, all of
\* them.
C27_AscendingLineOrder ==
  /\ [][pc = "loop" /\ transactions' # transactions =>
          PushesOne /\ IdIndex(transactions'[Len(transactions')]) = i]_vars
  /\ [](pc \in {"loop", "done"} =>
          \A k \in 1..Len(transactions) :
            /\ IdIndex(transactions[k]) > headerIndex
            /\ IdIndex(transactions[k]) < i
            /\ k > 1 => IdIndex(transactions[k - 1]) < IdIndex(transactions[k]))
  /\ [](pc = "done" =>
          {IdIndex(transactions[k]) : k \in 1..Len(transactions)}
            = {k \in (headerIndex + 1)..(Len(lines) - 1) : IsAcceptedLine(k)})

\* C27 witness: a call returned two transactions, of the lines 5000 and
\* 5001, from a document with the header row at line 4999.
C27_Witness ==
  /\ pc = "done"
  /\ headerIndex = 4999
  /\ Len(transactions) = 2
  /\ IdIndex(transactions[1]) = 5000
  /\ IdIndex(transactions[2]) = 5001

\* The file of the slot was read and its parse returned a transaction.
HasTransactions(file) ==
  /\ file # Null
  /\ file[1].readable
  /\ \E k \in 1..Len(returned) :
       returned[k].text = file[1].text /\ returned[k].result.transactions # <<>>

\* The file of the slot was read and its parse returned no transaction.
HasNoTransaction(file) ==
  /\ file # Null
  /\ file[1].readable
  /\ \E k \in 1..Len(returned) :
       returned[k].text = file[1].text /\ returned[k].result.transactions = <<>>

\* C28: a slot's report data is non-null only if the parse of the slot's
\* file returned at least one transaction, and is then that parse; when
\* handleProcessFiles has run to its end, a slot whose file parsed to no
\* transaction is null, and no error is set unless a file could not be read.
C28_SlotNeedsTransactions ==
  /\ selfServiceData # Null =>
       /\ HasTransactions(files.selfService)
       /\ selfServiceData[1] = ParsedText(files.selfService[1].text)
  /\ attendantData # Null =>
       /\ HasTransactions(files.attendant)
       /\ attendantData[1] = ParsedText(files.attendant[1].text)
  /\ appPc = "idle" /\ HasNoTransaction(files.selfService) => selfServiceData = Null
  /\ appPc = "idle" /\ HasNoTransaction(files.attendant) => attendantData = Null
  /\ UploadSettled => error = Null

\* C28 witness: an upload of a file of no known format in the self-service
\* slot and an attendant report in the other ended with the first slot null,
\* the second loaded and no error.
C28_Witness ==
  /\ UploadSettled
  /\ ~loading
  /\ files.selfService = <<[text |-> docUnknown, readable |-> TRUE]>>
  /\ files.attendant = <<[text |-> docAttendant, readable |-> TRUE]>>
  /\ selfServiceData = Null
  /\ attendantData # Null
  /\ error = Null

\* The App shows report data: the loader is not rendered and a slot has data.
ShowsReportData == ~loading /\ hasData

\* The content area renders a view for the active tab (lines 267-298).
ActiveTabHasContent ==
  \/ activeTab = "FINANCIAL"
  \/ activeTab = "SELF_SERVICE" /\ selfServiceData # Null
  \/ activeTab = "ATTENDANT" /\ attendantData # Null
  \/ activeTab = "COMPARISON" /\ selfServiceData # Null /\ attendantData # Null

\* C29: whenever the App shows report data the active tab has content to
\* render, after any sequence of uploads, resets, tab clicks and read
\* failures; and a step that ends an upload without a failure leaves
\* FINANCIAL as the active tab when both slots loaded, and otherwise the tab
\* of the one slot that loaded.
C29_ActiveTabHasContent ==
  /\ [](ShowsReportData => ActiveTabHasContent)
  /\ [][loading /\ ~loading' /\ error' = Null /\ hasData' =>
          activeTab' = IF selfServiceData' # Null /\ attendantData' # Null
                       THEN "FINANCIAL"
                       ELSE IF selfServiceData' # Null THEN "SELF_SERVICE"
                       ELSE "ATTENDANT"]_vars

\* The same for the uploads alone, read failures aside.
InitialTabOfUpload ==
  [][loading /\ ~loading' /\ error' = Null /\ hasData' =>
       activeTab' = IF selfServiceData' # Null /\ attendantData' # Null
                    THEN "FINANCIAL"
                    ELSE IF selfServiceData' # Null THEN "SELF_SERVICE"
                    ELSE "ATTENDANT"]_vars

\* The file whose read the handler awaits cannot be read.
AwaitsFailingRead ==
  \/ appPc = "readSelfService" /\ ~files.selfService[1].readable
  \/ appPc = "readAttendant" /\ ~files.attendant[1].readable

\* C30: every run of handleProcessFiles ends with loading = false; the step
\* that starts it clears both slots and the error; and the step that
\* settles a failing read ends the run with the error message set and
\* loading = false.
C30_LoadingEnds ==
  /\ loading ~> ~loading
  /\ [][~loading /\ loading' =>
          selfServiceData' = Null /\ attendantData' = Null /\ error' = Null]_vars
  /\ [][AwaitsFailingRead /\ appPc' # appPc =>
          /\ error' = <<"Erro ao processar os arquivos. Verifique se estão no formato CSV correto.">>
          /\ ~loading'
          /\ appPc' = "idle"]_vars

\* C30 witness: an upload of a report and an unreadable file ended with the
\* error message set and loading false, after an earlier upload had loaded
\* data that was then reset.
C30_Witness ==
  /\ uploads = 2
  /\ appPc = "idle"
  /\ ~loading
  /\ error # Null
  /\ files.selfService # Null
  /\ files.selfService[1].readable
  /\ files.attendant # Null
  /\ ~files.attendant[1].readable
  /\ attendantData = Null

====
